---- MODULE Spec2Model ----
(***************************************************************************)
(* Linear genetic programming engine (urmzd/linear-gp-with-rl).            *)
(*                                                                         *)
(* Spec      the generation iterator of core/algorithm.rs: one action per  *)
(*           outcome of GeneticAlgorithmIter::next.                        *)
(* SpecSurv  GeneticAlgorithm::survive applied to ranked populations.      *)
(* SpecCross Breed for Instructions::two_point_crossover, applied          *)
(*           repeatedly to its own children.                               *)
(* SpecFit   PartialOrd for FitnessScore on triples of scores.             *)
(* SpecQ     QTable::update on bounded tables.                             *)
(* SpecEp    Fitness for QProgram::eval_fitness: the trials of one         *)
(*           evaluation, one action per pass of its loops.                 *)
(* SpecQb    Breed and Mutate for QProgram on programs with learned tables.*)
(* SpecCl    Fitness for Program<ClassificationParameters>::eval_fitness.  *)
(* SpecCfg   GeneticAlgorithm::build on arbitrary HyperParameters values.  *)
(* SpecEv    GeneticAlgorithm::eval_fitness, one action per individual.    *)
(*                                                                         *)
(* Floating point: gap, mutation_percent, crossover_percent, alpha and     *)
(* gamma are drawn from dyadic rationals <<num, den>>, for which the f64   *)
(* products and floors of the source are exact.                            *)
(***************************************************************************)
EXTENDS Integers, Sequences, FiniteSets, TLC

\* ------------------------------------------------------------------ bounds
MaxPop == 3
MaxGen == 1
MaxInstructions == 3

\* Hyperparameter values the runs are drawn from (dyadic, so exact in f64).
Gaps == {<<0, 1>>, <<1, 4>>, <<1, 2>>, <<1, 1>>}
Percents == {<<0, 1>>, <<1, 2>>, <<1, 1>>}
\* Scores a fitness adapter can report inside Valid(_).
Scores == {1, 2}
\* The instruction alphabet of generated programs in the iterator runs.
GaInstruction == {1}

VARIABLES
    params,             \* GeneticAlgorithmIter.params (HyperParameters)
    generation,         \* GeneticAlgorithmIter.generation
    next_population,    \* GeneticAlgorithmIter.next_population
    capacity,           \* Population.capacity of next_population
    debug_assertions,   \* whether the build compiles debug_assert!: "on", "off",
                        \* or "unset" while no debug_assert! has decided anything
    snapshot,           \* the population returned by the last Some(_)
    yielded,            \* number of Some(_) returned so far
    last,               \* outcome of the last pull: "new", "some", "none", "panic"
    survivors           \* the population variation was entered with in the last pull

gaVars == <<params, generation, next_population, capacity, debug_assertions,
            snapshot, yielded, last, survivors>>

VARIABLES
    sv_population,      \* survive: the ranked population it is called with
    sv_gap,             \* survive: parameters.gap
    sv_survivors,       \* survive: the population it returns
    sv_pc               \* "call" before survive, "done" after

survVars == <<sv_population, sv_gap, sv_survivors, sv_pc>>

VARIABLES
    cx_parents,         \* two_point_crossover: <<self, mate>> of the next call
    cx_before,          \* <<self, mate>> of the last call, <<>> before the first
    cx_points,          \* <<<<a_start, a_end>>, <<b_start, b_end>>>> of the last call
    cx_rounds           \* calls made so far

crossVars == <<cx_parents, cx_before, cx_points, cx_rounds>>

VARIABLES
    fs_scores,          \* three FitnessScore values
    fs_cmp,             \* partial_cmp of each ordered pair of them, <<>> before the call
    fs_eq               \* == of each ordered pair of them, <<>> before the call

fitVars == <<fs_scores, fs_cmp, fs_eq>>

VARIABLES
    q_table,            \* QTable::update: self
    q_before,           \* self as it was when update was called, <<>> before the call
    q_call              \* the arguments: current_action_state, current_reward,
                        \* next_action_state

qVars == <<q_table, q_before, q_call>>

VARIABLES
    ep_q_table,         \* QProgram.q_table
    ep_fitness,         \* QProgram.program.fitness
    ep_states,          \* parameters.get_state(): the number of initial states
    ep_max_episode_length, \* parameters.max_episode_length
    ep_trial,           \* initial states visited so far
    ep_current_q_table, \* current_q_table of the running trial
    ep_score,           \* score of the running trial
    ep_current_action_state, \* current_action_state of the running trial
    ep_step,            \* passes of the step loop begun in the running trial
    ep_pairs,           \* score_q_table_pairs, in the order the trials pushed them
    ep_pc,              \* "trial": at the head of the loop over initial states,
                        \* "step": at the head of the step loop, "done": returned,
                        \* "panic": aborted
    ep_sims,            \* calls of environment.sim so far
    ep_q_start,         \* QProgram.q_table when eval_fitness was called
    ep_last,            \* the last pass of the step loop: "none", or whether the
                        \* registers of the two pairs were the "same" or "changed"
    ep_sim_log          \* what environment.sim returned in the running trial, in
                        \* the order of the calls

epVars == <<ep_q_table, ep_fitness, ep_states, ep_max_episode_length, ep_trial,
            ep_current_q_table, ep_score, ep_current_action_state, ep_step,
            ep_pairs, ep_pc, ep_sims, ep_q_start, ep_last, ep_sim_log>>

VARIABLES
    qb_self,            \* the QProgram two_point_crossover or mutate is called on
    qb_mate,            \* the mate of two_point_crossover
    qb_children,        \* the QPrograms the call returned
    qb_op               \* the call made: "none", "two_point_crossover", "mutate"

qbVars == <<qb_self, qb_mate, qb_children, qb_op>>

VARIABLES
    cl_inputs,          \* parameters.inputs: class and registers after exec of each
    cl_visited,         \* inputs the loop has visited
    cl_n_correct,       \* n_correct
    cl_fitness,         \* Program.fitness: <<>> for None, else n_correct / len as
                        \* <<numerator, denominator>>
    cl_pc               \* "loop" in the loop over the inputs, "done" after it

clVars == <<cl_inputs, cl_visited, cl_n_correct, cl_fitness, cl_pc>>

VARIABLES
    cfg_params,         \* the HyperParameters value handed to build
    cfg_population,     \* GeneticAlgorithmIter.next_population after new
    cfg_pc              \* "params": the value exists, "built": new has returned

cfgVars == <<cfg_params, cfg_population, cfg_pc>>

VARIABLES
    ev_population,      \* GeneticAlgorithm::eval_fitness: population
    ev_before,          \* population as it was at the call
    ev_visited,         \* individuals the loop has visited
    ev_calls,           \* ev_calls[i]: calls of individual.eval_fitness on the i-th
    ev_pc               \* "loop", "done" or "panic"

evVars == <<ev_population, ev_before, ev_visited, ev_calls, ev_pc>>

VARIABLES
    qe_table,           \* QTable::eval and update: self
    qe_before,          \* self as it was at the last call, <<>> before the first
    qe_registers,       \* the registers handed to the last eval
    qe_pairs,           \* the ActionRegisterPairs eval has returned, in order
    qe_branches,        \* "explore" or "exploit" for each of them
    qe_op               \* the last call: "none", "eval", "update" or "panic"

qeVars == <<qe_table, qe_before, qe_registers, qe_pairs, qe_branches, qe_op>>

VARIABLES
    vr_survivors,       \* variation: the population it is called with
    vr_capacity,        \* population.capacity()
    vr_params,          \* parameters
    vr_population,      \* the population it returns
    vr_pc               \* "call" before variation, "done" after

vrVars == <<vr_survivors, vr_capacity, vr_params, vr_population, vr_pc>>

VARIABLES
    hk_params,          \* GeneticAlgorithmIter.params
    hk_hooks,           \* what the implementor's two hooks do with the parameters
    hk_generation,      \* GeneticAlgorithmIter.generation
    hk_local,           \* the local params of the running pull, <<>> between pulls
    hk_hooked,          \* the local params as the hooks of the last pull left them
    hk_evaluated_with,  \* the fitness_parameters eval_fitness was last called with
    hk_pc               \* position in next: "head", "pre_eval", "eval", "post_rank",
                        \* "tail", or "none" after None was returned

hkVars == <<hk_params, hk_hooks, hk_generation, hk_local, hk_hooked, hk_evaluated_with,
            hk_pc>>

VARIABLES
    ql_n_generations,   \* params.n_generations
    ql_capacity,        \* params.population_size
    ql_len,             \* organisms in next_population
    ql_calls_on_pre_rank, \* whether the driver calls the on_pre_rank slot
    ql_generation,      \* GeneticAlgorithmIter.generation
    ql_visited,         \* organisms eval_fitness has visited in the running pull
    ql_log,             \* the running pull: environment calls and pipeline steps
    ql_pc               \* position in next

qlVars == <<ql_n_generations, ql_capacity, ql_len, ql_calls_on_pre_rank, ql_generation,
            ql_visited, ql_log, ql_pc>>

VARIABLES
    dt_params,          \* GeneticAlgorithmIter.params
    dt_adapter,         \* the fitness the adapter computes for each program it has seen
    dt_generation,      \* GeneticAlgorithmIter.generation
    dt_next_population, \* GeneticAlgorithmIter.next_population
    dt_snapshot,        \* the population returned by the last Some(_)
    dt_previous,        \* the population returned by the Some(_) before it
    dt_last             \* outcome of the last pull: "new", "some", "none"

dtVars == <<dt_params, dt_adapter, dt_generation, dt_next_population, dt_snapshot,
            dt_previous, dt_last>>

moreVars == <<qeVars, vrVars, hkVars, qlVars, dtVars>>

coreVars == <<gaVars, survVars, crossVars, fitVars, qVars, epVars, qbVars, clVars, cfgVars,
              evVars>>

vars == <<coreVars, moreVars>>

\* ------------------------------------------------------------ FitnessScore
NotEvaluated == [tag |-> "NotEvaluated", v |-> 0]
OutOfBounds == [tag |-> "OutOfBounds", v |-> 0]
Valid(x) == [tag |-> "Valid", v |-> x]

\* f64::partial_cmp on finite values.
f64_partial_cmp(a, b) == IF a < b THEN "Less" ELSE IF a > b THEN "Greater" ELSE "Equal"

\* partial_cmp with the arm (_, Valid(_)) answering Greater.
partial_cmp_valid_arm_swapped(a, b) ==
    IF a.tag = "Valid" /\ b.tag = "Valid" THEN f64_partial_cmp(a.v, b.v)
    ELSE IF a.tag = "Valid" THEN "Greater"
    ELSE IF b.tag = "Valid" THEN "Greater"
    ELSE "Equal"

partial_cmp(a, b) ==
    IF a.tag = "Valid" /\ b.tag = "Valid" THEN f64_partial_cmp(a.v, b.v)
    ELSE IF a.tag = "Valid" THEN "Greater"
    ELSE IF b.tag = "Valid" THEN "Less"
    ELSE "Equal"

\* The comparison operators Rust derives from partial_cmp.
fit_le(a, b) == partial_cmp(a, b) \in {"Less", "Equal"}
fit_lt(a, b) == partial_cmp(a, b) = "Less"
fit_gt(a, b) == partial_cmp(a, b) = "Greater"

\* The == that #[derive(PartialEq)] generates: same variant, and for Valid the
\* same value.
fitness_score_eq(a, b) == a.tag = b.tag /\ (a.tag = "Valid" => a.v = b.v)

is_not_evaluated(f) == f.tag = "NotEvaluated"

is_invalid(f) == ~(f.tag = "Valid" \/ f.tag = "NotEvaluated")

\* ------------------------------------------------------- rational helpers
\* floor(n * (num/den)) for n >= 0, num >= 0, den > 0.
FloorMul(n, q) == (n * q[1]) \div q[2]
\* 1.0 - q
OneMinus(q) == <<q[2] - q[1], q[2]>>
\* a + b <= 1
SumAtMostOne(a, b) == a[1] * b[2] + b[1] * a[2] <= a[2] * b[2]

\* ------------------------------------------------------- sequence helpers
\* Rust's s[i..j] on a 0-based slice.
Slice(s, i, j) == SubSeq(s, i + 1, j)

\* All sequences over S of length lo..hi.
SeqsOf(S, lo, hi) == UNION {[1..n -> S] : n \in lo..hi}

\* Sequences of k distinct indices of 1..n.
InjSeqs(n, k) == {s \in [1..k -> 1..n] : \A i, j \in 1..k : i # j => s[i] # s[j]}

Min(a, b) == IF a <= b THEN a ELSE b

\* ------------------------------------------------------------ Instructions
None == -1

\* The points sampled with the end drawn from [start, len), so that a chunk
\* can be empty.
CrossPoints_end_from_start(instructions) ==
    {<<start, end>> \in (0..(Len(instructions) - 1)) \X ({None} \cup 0..Len(instructions)) :
        IF start = Len(instructions) - 1
        THEN end = None
        ELSE end \in start..(Len(instructions) - 1)}

\* The (start, end) pairs two_point_crossover can sample on a sequence.
CrossPoints(instructions) ==
    {<<start, end>> \in (0..(Len(instructions) - 1)) \X ({None} \cup 1..Len(instructions)) :
        IF start = Len(instructions) - 1
        THEN end = None
        ELSE end \in (start + 1)..(Len(instructions) - 1)}

\* The chunk always taken up to the end of the sequence.
chunk_to_end(instructions, pt) == Slice(instructions, pt[1], Len(instructions))

chunk(instructions, pt) ==
    IF pt[2] = None
    THEN Slice(instructions, pt[1], Len(instructions))
    ELSE Slice(instructions, pt[1], pt[2])

splice(instructions, pt, replace_with) ==
    Slice(instructions, 0, pt[1]) \o replace_with \o
        (IF pt[2] = None THEN <<>> ELSE Slice(instructions, pt[2], Len(instructions)))

\* Breed for Instructions, with the sampled points as arguments.
two_point_crossover(a, b, pa, pb) ==
    <<splice(a, pa, chunk(b, pb)), splice(b, pb, chunk(a, pa))>>

\* ----------------------------------------------------------------- Program
Program(instructions) == [instructions |-> instructions, fitness |-> NotEvaluated]

generate(max_instructions) ==
    {Program(i) : i \in SeqsOf(GaInstruction, 1, max_instructions)}

\* Every child Breed for Program can return for the two parents.
program_crossover(parent_a, parent_b) ==
    UNION {{Program(two_point_crossover(parent_a.instructions, parent_b.instructions, pa, pb)[k]) :
                k \in 1..2} :
            pa \in CrossPoints(parent_a.instructions),
            pb \in CrossPoints(parent_b.instructions)}

\* Every child Mutate for Program can return: replace, insert or delete.
mutate(parent, max_instructions) ==
    LET ins == parent.instructions
        n == Len(ins)
        replaced == {[ins EXCEPT ![i] = x] : i \in 1..n, x \in GaInstruction}
        inserted == IF n < max_instructions
                    THEN {SubSeq(ins, 1, i) \o <<x>> \o SubSeq(ins, i + 1, n) :
                            i \in 0..n, x \in GaInstruction}
                    ELSE {}
        deleted == IF n > 1
                   THEN {SubSeq(ins, 1, i - 1) \o SubSeq(ins, i + 1, n) : i \in 1..n}
                   ELSE {}
    IN  {Program(i) : i \in replaced \cup inserted \cup deleted}

duplicate_new(individual) == Program(individual.instructions)

\* -------------------------------------------------------------- Population
worst(population) == population[1]
best(population) == population[Len(population)]
median(population) == population[(Len(population) \div 2) + 1]

\* Removes the organism at the worst end; nothing on an empty population.
pop(population) == IF population = <<>> THEN <<>> ELSE Tail(population)

\* Stable insertion of x into a population sorted ascending by fitness.
sorted_insert(population, x) ==
    LET k == Cardinality({i \in 1..Len(population) : fit_le(population[i].fitness, x.fitness)})
    IN  SubSeq(population, 1, k) \o <<x>> \o SubSeq(population, k + 1, Len(population))

RECURSIVE sort(_)
sort(population) ==
    IF population = <<>> THEN <<>>
    ELSE sorted_insert(sort(SubSeq(population, 1, Len(population) - 1)),
                       population[Len(population)])

\* ---------------------------------------------------------- GeneticAlgorithm
\* What a fitness adapter can write into an organism.
EvalOutcomes == {OutOfBounds} \cup {Valid(x) : x \in Scores}

init_pop(hyperparams) ==
    [1..hyperparams.population_size -> generate(hyperparams.max_instructions)]

\* outcome[i] is what the adapter reports for the i-th individual.
eval_fitness(population, outcome) ==
    [i \in 1..Len(population) |-> [population[i] EXCEPT !.fitness = outcome[i]]]

\* rank without the sort.
rank_unsorted(population) == population

rank(population) == sort(population)

on_pre_eval_fitness(population) == population

on_post_rank(population) == population

\* The count taken as floor(gap * pop_len).
n_of_individuals_to_drop_floor_gap(pop_len, gap) == FloorMul(pop_len, gap)

\* pop_len - floor((1 - gap) * pop_len), as isize.
n_of_individuals_to_drop(pop_len, gap) == pop_len - FloorMul(pop_len, OneMinus(gap))

\* The first loop without the decrement of n_of_individuals_to_drop.
RECURSIVE drop_invalid_uncounted(_, _)
drop_invalid_uncounted(population, n) ==
    IF population # <<>> /\ is_invalid(worst(population).fitness)
    THEN drop_invalid_uncounted(pop(population), n)
    ELSE <<population, n>>

\* First loop of survive: <<population, n_of_individuals_to_drop>> after it.
RECURSIVE drop_invalid(_, _)
drop_invalid(population, n) ==
    IF population # <<>> /\ is_invalid(worst(population).fitness)
    THEN drop_invalid(pop(population), n - 1)
    ELSE <<population, n>>

\* Second loop of survive.
RECURSIVE drop_gap(_, _)
drop_gap(population, n) ==
    IF n > 0 THEN drop_gap(pop(population), n - 1) ELSE population

survive(population, gap) ==
    LET after_invalid == drop_invalid(population,
                                      n_of_individuals_to_drop(Len(population), gap))
    IN  drop_gap(after_invalid[1], after_invalid[2])

n_mutations(remaining_pool_spots, hp) == FloorMul(remaining_pool_spots, hp.mutation_percent)
n_crossovers(remaining_pool_spots, hp) == FloorMul(remaining_pool_spots, hp.crossover_percent)

Dec(n) == IF n > 0 THEN n - 1 ELSE 0

\* The children one pass of the crossover + mutation loop can push.
breed_step(parent_a, parent_b, n_cross, n_mut, hp) ==
    {cx \o mu :
        cx \in (IF n_cross > 0
                THEN {<<c>> : c \in program_crossover(parent_a, parent_b)}
                ELSE {<<>>}),
        mu \in (IF n_mut > 0
                THEN {<<m>> : m \in mutate(parent_a, hp.max_instructions)
                                      \cup mutate(parent_b, hp.max_instructions)}
                ELSE {<<>>})}

\* Every offspring sequence the crossover + mutation loop can build from a
\* non-empty population.
RECURSIVE breed(_, _, _, _)
breed(population, n_cross, n_mut, hp) ==
    IF n_cross + n_mut = 0 THEN {<<>>}
    ELSE UNION {{step \o rest :
                    step \in breed_step(population[i], population[j], n_cross, n_mut, hp),
                    rest \in breed(population, Dec(n_cross), Dec(n_mut), hp)} :
                i \in 1..Len(population), j \in 1..Len(population)}

\* choose_multiple(amount) followed by duplicate_new: at most one clone of
\* each member, in any order.
clones(population, amount) ==
    LET k == Min(amount, Len(population))
    IN  {[i \in 1..k |-> duplicate_new(population[s[i]])] : s \in InjSeqs(Len(population), k)}

\* Whether variation aborts: debug_assert at entry, debug_assert on the
\* counts, or no parent to choose.
variation_panics(population, pop_cap, hp, debug) ==
    LET remaining_pool_spots == pop_cap - Len(population)
        n_mut == n_mutations(remaining_pool_spots, hp)
        n_cross == n_crossovers(remaining_pool_spots, hp)
    IN  \/ debug /\ Len(population) = 0
        \/ /\ remaining_pool_spots # 0
           /\ \/ debug /\ n_mut + n_cross > remaining_pool_spots
              \/ n_cross + n_mut > 0 /\ Len(population) = 0

\* Whether a debug_assert! of variation is reached with a false condition, so
\* that the two builds differ.
debug_assert_decides(population, pop_cap, hp) ==
    variation_panics(population, pop_cap, hp, TRUE)
        # variation_panics(population, pop_cap, hp, FALSE)

\* The builds a run can still be, given what debug_assertions records; where
\* no debug_assert! decides anything the builds behave alike and one stands
\* for both.
Builds(recorded, decides) ==
    IF recorded = "unset"
    THEN (IF decides THEN {TRUE, FALSE} ELSE {FALSE})
    ELSE {recorded = "on"}

\* debug_assertions after a pull of a build with the given setting.
Recorded(recorded, debug, decides) ==
    IF decides THEN (IF debug THEN "on" ELSE "off") ELSE recorded

\* variation with the offspring in front of the population it was given.
variation_offspring_first(population, pop_cap, hp) ==
    LET remaining_pool_spots == pop_cap - Len(population)
        n_mut == n_mutations(remaining_pool_spots, hp)
        n_cross == n_crossovers(remaining_pool_spots, hp)
    IN  IF remaining_pool_spots = 0 THEN {population}
        ELSE {offspring \o filler \o population :
                offspring \in breed(population, n_cross, n_mut, hp),
                filler \in clones(population, remaining_pool_spots - n_cross - n_mut)}

\* Every population variation can return when it does not abort.
variation(population, pop_cap, hp) ==
    LET remaining_pool_spots == pop_cap - Len(population)
        n_mut == n_mutations(remaining_pool_spots, hp)
        n_cross == n_crossovers(remaining_pool_spots, hp)
    IN  IF remaining_pool_spots = 0 THEN {population}
        ELSE {population \o offspring \o filler :
                offspring \in breed(population, n_cross, n_mut, hp),
                filler \in clones(population, remaining_pool_spots - n_cross - n_mut)}

\* ------------------------------------------------------ GeneticAlgorithmIter
\* The test written with >=.
is_exhausted_at_last(gen, hp) == gen >= hp.n_generations

\* The test at the head of next.
is_exhausted(gen, hp) == gen > hp.n_generations

\* next returning the population it stored for the next generation.
yielded_item_next(population, new_population) == new_population

\* The item next returns, given the ranked and the post-variation population.
yielded_item(population, new_population) == population

HyperParameters ==
    {hp \in [population_size : 1..MaxPop,
             gap : Gaps,
             mutation_percent : Percents,
             crossover_percent : Percents,
             n_generations : 0..MaxGen,
             max_instructions : {MaxInstructions}] :
        SumAtMostOne(hp.mutation_percent, hp.crossover_percent)}

\* The parts of the state a specification does not use.
IdleGa ==
    /\ params = <<>>
    /\ debug_assertions = "unset"
    /\ generation = 0
    /\ next_population = <<>>
    /\ capacity = 0
    /\ snapshot = <<>>
    /\ survivors = <<>>
    /\ yielded = 0
    /\ last = "new"

IdleSurv ==
    /\ sv_population = <<>>
    /\ sv_gap = <<0, 1>>
    /\ sv_survivors = <<>>
    /\ sv_pc = "idle"

IdleCross ==
    /\ cx_parents = <<>>
    /\ cx_before = <<>>
    /\ cx_points = <<>>
    /\ cx_rounds = 0

IdleFit ==
    /\ fs_scores = <<>>
    /\ fs_cmp = <<>>
    /\ fs_eq = <<>>

IdleQ ==
    /\ q_table = <<>>
    /\ q_before = <<>>
    /\ q_call = <<>>

IdleEp ==
    /\ ep_q_table = <<>>
    /\ ep_fitness = NotEvaluated
    /\ ep_states = 0
    /\ ep_max_episode_length = 0
    /\ ep_trial = 0
    /\ ep_current_q_table = <<>>
    /\ ep_score = 0
    /\ ep_current_action_state = <<>>
    /\ ep_step = 0
    /\ ep_pairs = <<>>
    /\ ep_pc = "idle"
    /\ ep_sims = 0
    /\ ep_q_start = <<>>
    /\ ep_last = "none"
    /\ ep_sim_log = <<>>

IdleQb ==
    /\ qb_self = <<>>
    /\ qb_mate = <<>>
    /\ qb_children = <<>>
    /\ qb_op = "idle"

IdleCl ==
    /\ cl_inputs = <<>>
    /\ cl_visited = 0
    /\ cl_n_correct = 0
    /\ cl_fitness = <<>>
    /\ cl_pc = "idle"

IdleCfg ==
    /\ cfg_params = <<>>
    /\ cfg_population = <<>>
    /\ cfg_pc = "idle"

IdleEv ==
    /\ ev_population = <<>>
    /\ ev_before = <<>>
    /\ ev_visited = 0
    /\ ev_calls = <<>>
    /\ ev_pc = "idle"

IdleQe ==
    /\ qe_table = <<>>
    /\ qe_before = <<>>
    /\ qe_registers = <<>>
    /\ qe_pairs = <<>>
    /\ qe_branches = <<>>
    /\ qe_op = "idle"

IdleVr ==
    /\ vr_survivors = <<>>
    /\ vr_capacity = 0
    /\ vr_params = <<>>
    /\ vr_population = <<>>
    /\ vr_pc = "idle"

IdleHk ==
    /\ hk_params = <<>>
    /\ hk_hooks = <<>>
    /\ hk_generation = 0
    /\ hk_local = <<>>
    /\ hk_hooked = <<>>
    /\ hk_evaluated_with = <<>>
    /\ hk_pc = "idle"

IdleQl ==
    /\ ql_n_generations = 0
    /\ ql_capacity = 0
    /\ ql_len = 0
    /\ ql_calls_on_pre_rank = FALSE
    /\ ql_generation = 0
    /\ ql_visited = 0
    /\ ql_log = <<>>
    /\ ql_pc = "idle"

IdleDt ==
    /\ dt_params = <<>>
    /\ dt_adapter = <<>>
    /\ dt_generation = 0
    /\ dt_next_population = <<>>
    /\ dt_snapshot = <<>>
    /\ dt_previous = <<>>
    /\ dt_last = "idle"

IdleMore == IdleQe /\ IdleVr /\ IdleHk /\ IdleQl /\ IdleDt

\* The parts of the state only the specifications further down use.
IdleRest == IdleEp /\ IdleQb /\ IdleCl /\ IdleCfg /\ IdleEv /\ IdleMore

IdleCore ==
    /\ IdleGa /\ IdleSurv /\ IdleCross /\ IdleFit /\ IdleQ
    /\ IdleEp /\ IdleQb /\ IdleCl /\ IdleCfg /\ IdleEv

\* GeneticAlgorithm::build: the state after GeneticAlgorithmIter::new.
Init ==
    /\ IdleSurv /\ IdleCross /\ IdleFit /\ IdleQ /\ IdleRest
    /\ params \in HyperParameters
    /\ debug_assertions = "unset"
    /\ generation = 0
    /\ next_population \in init_pop(params)
    /\ capacity = params.population_size
    /\ snapshot = <<>>
    /\ survivors = <<>>
    /\ yielded = 0
    /\ last = "new"

\* next returns None.
NextNone ==
    /\ last # "panic"
    /\ is_exhausted(generation, params)
    /\ last' = "none"
    /\ UNCHANGED <<params, generation, next_population, capacity, debug_assertions,
                   snapshot, yielded, survivors>>
    /\ UNCHANGED <<survVars, crossVars, fitVars, qVars, epVars, qbVars, clVars, cfgVars,
                   evVars, moreVars>>

\* The ranked population of a pull whose adapter reports outcome.
Ranked(outcome) ==
    on_post_rank(rank(eval_fitness(on_pre_eval_fitness(next_population), outcome)))

\* The assert! after on_post_rank.
all_evaluated(population) ==
    \A i \in 1..Len(population) : ~is_not_evaluated(population[i].fitness)

\* next returns Some(population).
NextSome ==
    /\ last # "panic"
    /\ ~is_exhausted(generation, params)
    /\ \E outcome \in [1..Len(next_population) -> EvalOutcomes] :
        LET population == Ranked(outcome)
            remaining == survive(population, params.gap)
        IN  /\ all_evaluated(population)
            /\ \E debug \in Builds(debug_assertions,
                                  debug_assert_decides(remaining, capacity, params)) :
                /\ ~variation_panics(remaining, capacity, params, debug)
                /\ debug_assertions' =
                        Recorded(debug_assertions, debug,
                                 debug_assert_decides(remaining, capacity, params))
            /\ \E new_population \in variation(remaining, capacity, params) :
                /\ next_population' = new_population
                /\ snapshot' = yielded_item(population, new_population)
            /\ survivors' = remaining
    /\ generation' = generation + 1
    /\ yielded' = yielded + 1
    /\ last' = "some"
    /\ UNCHANGED <<params, capacity>>
    /\ UNCHANGED <<survVars, crossVars, fitVars, qVars, epVars, qbVars, clVars, cfgVars,
                   evVars, moreVars>>

\* next aborts in one of its assertions or in variation.
NextPanic ==
    /\ last # "panic"
    /\ ~is_exhausted(generation, params)
    /\ \E outcome \in [1..Len(next_population) -> EvalOutcomes] :
        LET population == Ranked(outcome)
            remaining == survive(population, params.gap)
        IN  /\ \E debug \in Builds(debug_assertions,
                                  debug_assert_decides(remaining, capacity, params)) :
                /\ \/ ~all_evaluated(population)
                   \/ variation_panics(remaining, capacity, params, debug)
                /\ debug_assertions' =
                        Recorded(debug_assertions, debug,
                                 debug_assert_decides(remaining, capacity, params))
            /\ survivors' = remaining
    /\ last' = "panic"
    /\ UNCHANGED <<params, generation, next_population, capacity, snapshot, yielded>>
    /\ UNCHANGED <<survVars, crossVars, fitVars, qVars, epVars, qbVars, clVars, cfgVars,
                   evVars, moreVars>>

Next == NextNone \/ NextSome \/ NextPanic

Spec == Init /\ [][Next]_vars

\* ------------------------------------------------------------------ survive
MaxSurvPop == 4
SurvGaps == {<<0, 1>>, <<1, 4>>, <<1, 2>>, <<3, 4>>, <<1, 1>>}
SurvScores == {1, 2, 3}

\* The populations eval_fitness and rank can hand to survive.
RankedPopulations ==
    {rank([i \in 1..Len(f) |-> [instructions |-> <<i>>, fitness |-> f[i]]]) :
        f \in SeqsOf({OutOfBounds} \cup {Valid(x) : x \in SurvScores}, 0, MaxSurvPop)}

InitSurv ==
    /\ IdleGa /\ IdleCross /\ IdleFit /\ IdleQ /\ IdleRest
    /\ sv_population \in RankedPopulations
    /\ sv_gap \in SurvGaps
    /\ sv_survivors = <<>>
    /\ sv_pc = "call"

Survive ==
    /\ sv_pc = "call"
    /\ sv_survivors' = survive(sv_population, sv_gap)
    /\ sv_pc' = "done"
    /\ UNCHANGED <<sv_population, sv_gap, gaVars, crossVars, fitVars, qVars, epVars, qbVars,
                   clVars, cfgVars, evVars, moreVars>>

NextSurv == Survive

SpecSurv == InitSurv /\ [][NextSurv]_vars

\* ------------------------------------------------------ two_point_crossover
MaxCrossLen == 3
MaxRounds == 2

\* Parents whose instructions are all distinct, so that a child shows where
\* each of its instructions came from.
InitCross ==
    /\ IdleGa /\ IdleSurv /\ IdleFit /\ IdleQ /\ IdleRest
    /\ \E n \in 1..MaxCrossLen, m \in 1..MaxCrossLen :
        cx_parents = <<[i \in 1..n |-> i], [i \in 1..m |-> n + i]>>
    /\ cx_before = <<>>
    /\ cx_points = <<>>
    /\ cx_rounds = 0

\* One pass of the loop that crosses two programs over and takes the children
\* as the next parents.
Crossover ==
    /\ cx_rounds < MaxRounds
    /\ \E pa \in CrossPoints(cx_parents[1]), pb \in CrossPoints(cx_parents[2]) :
        /\ cx_parents' = two_point_crossover(cx_parents[1], cx_parents[2], pa, pb)
        /\ cx_points' = <<pa, pb>>
    /\ cx_before' = cx_parents
    /\ cx_rounds' = cx_rounds + 1
    /\ UNCHANGED <<gaVars, survVars, fitVars, qVars, epVars, qbVars, clVars, cfgVars, evVars,
                   moreVars>>

NextCross == Crossover

SpecCross == InitCross /\ [][NextCross]_vars

\* ------------------------------------------------- FitnessScore::partial_cmp
MaxScore == 2

FitnessScores == {NotEvaluated, OutOfBounds} \cup {Valid(x) : x \in 0..MaxScore}

InitFit ==
    /\ IdleGa /\ IdleSurv /\ IdleCross /\ IdleQ /\ IdleRest
    /\ fs_scores \in [1..3 -> FitnessScores]
    /\ fs_cmp = <<>>
    /\ fs_eq = <<>>

Compare ==
    /\ fs_cmp = <<>>
    /\ fs_cmp' = [i \in 1..3 |-> [j \in 1..3 |-> partial_cmp(fs_scores[i], fs_scores[j])]]
    /\ fs_eq' = [i \in 1..3 |-> [j \in 1..3 |-> fitness_score_eq(fs_scores[i], fs_scores[j])]]
    /\ UNCHANGED <<fs_scores, gaVars, survVars, crossVars, qVars, epVars, qbVars, clVars,
                   cfgVars, evVars, moreVars>>

NextFit == Compare

SpecFit == InitFit /\ [][NextFit]_vars

\* ------------------------------------------------------------------- QTable
\* f64 values are rationals <<numerator, denominator>> with a positive
\* denominator; every value the runs produce is dyadic.
Rat(n) == <<n, 1>>
RatAdd(x, y) == <<x[1] * y[2] + y[1] * x[2], x[2] * y[2]>>
RatSub(x, y) == <<x[1] * y[2] - y[1] * x[2], x[2] * y[2]>>
RatMul(x, y) == <<x[1] * y[1], x[2] * y[2]>>
RatEq(x, y) == x[1] * y[2] = y[1] * x[2]
RatLe(x, y) == x[1] * y[2] <= y[1] * x[2]

NRegisters == 2
NActions == 2
QValues == {0, 3}
Rewards == {-1, 0}
Alphas == {<<1, 4>>, <<1, 2>>}
Gammas == {<<1, 8>>, <<1, 2>>}

QConsts == [alpha : Alphas, gamma : Gammas, epsilon : {<<1, 2>>}]

ActionRegisterPairs == [action : 0..(NActions - 1), register : 0..(NRegisters - 1)]

\* The indices float_ops::argmax can return for a row: one of its maxima.
argmax(row) ==
    {a \in DOMAIN row : \A other \in DOMAIN row : RatLe(row[other], row[a])}

action_argmax(self, register_number) == argmax(self.table[register_number])

\* The largest value of a row.
max_val(row) == row[CHOOSE a \in argmax(row) : TRUE]

\* update adding new_q_value to every cell of the current register's row.
update_whole_row(self, current_action_state, current_reward, next_action_state, argmax_index) ==
    LET current_q_value ==
            self.table[current_action_state.register][current_action_state.action]
        next_q_value == Rat(argmax_index)
        new_q_value ==
            RatMul(self.q_consts.alpha,
                   RatSub(RatAdd(Rat(current_reward),
                                 RatMul(self.q_consts.gamma, next_q_value)),
                          current_q_value))
    IN  [self EXCEPT !.table[current_action_state.register] =
                        [a \in DOMAIN @ |-> RatAdd(@[a], new_q_value)]]

\* QTable::update, with the index action_argmax returned as an argument.
update(self, current_action_state, current_reward, next_action_state, argmax_index) ==
    LET current_q_value ==
            self.table[current_action_state.register][current_action_state.action]
        next_q_value == Rat(argmax_index)
        new_q_value ==
            RatMul(self.q_consts.alpha,
                   RatSub(RatAdd(Rat(current_reward),
                                 RatMul(self.q_consts.gamma, next_q_value)),
                          current_q_value))
    IN  [self EXCEPT !.table[current_action_state.register][current_action_state.action] =
                        RatAdd(@, new_q_value)]

InitQ ==
    /\ IdleGa /\ IdleSurv /\ IdleCross /\ IdleFit /\ IdleRest
    /\ \E t \in [0..(NRegisters - 1) -> [0..(NActions - 1) -> {Rat(v) : v \in QValues}]],
          c \in QConsts :
        q_table = [table |-> t, n_actions |-> NActions, n_registers |-> NRegisters,
                   q_consts |-> c]
    /\ q_call \in [current : ActionRegisterPairs, reward : Rewards,
                   next : ActionRegisterPairs]
    /\ q_before = <<>>

Update ==
    /\ q_before = <<>>
    /\ \E argmax_index \in action_argmax(q_table, q_call.next.register) :
        q_table' = update(q_table, q_call.current, q_call.reward, q_call.next, argmax_index)
    /\ q_before' = q_table
    /\ UNCHANGED <<q_call, gaVars, survVars, crossVars, fitVars, epVars, qbVars, clVars,
                   cfgVars, evVars, moreVars>>

NextQ == Update

SpecQ == InitQ /\ [][NextQ]_vars

\* ------------------------------------------------- QProgram::eval_fitness
MaxTrials == 3
MaxEpisodeLength == 2
\* Bound on initial states + max_episode_length of one evaluation.
MaxEpisodeWork == 4

\* QTable::new: every cell 0.
QTable_new(n_actions, n_registers, q_consts) ==
    [table |-> [r \in 0..(n_registers - 1) |-> [a \in 0..(n_actions - 1) |-> Rat(0)]],
     n_actions |-> n_actions, n_registers |-> n_registers, q_consts |-> q_consts]

\* The constants of the evaluated program's table.
EpConsts == [alpha |-> <<1, 2>>, gamma |-> <<1, 2>>, epsilon |-> <<1, 2>>]

\* Option<ActionRegisterPair>::None.
NoActionState == [action |-> None, register |-> None]

\* action_random drawing from 0..=n_actions.
action_random_inclusive(self) == 0..self.n_actions

\* QTable::action_random: the values UniformInt::new(0, n_actions) can give.
action_random(self) == 0..(self.n_actions - 1)

\* QTable::eval: None when the registers have no winner, else a winning
\* register (any register can win: the registers are the program's output) with
\* a random action when prob < epsilon and the argmax action otherwise.
eval(self) ==
    {NoActionState} \cup
    UNION {{[action |-> a, register |-> r] :
                a \in (IF self.q_consts.epsilon[1] > 0 THEN action_random(self) ELSE {})
                        \cup action_argmax(self, r)} :
            r \in 0..(self.n_registers - 1)}

\* program.exec followed by q_table.eval.
get_action_state(working_q_table) == eval(working_q_table)

\* environment.sim: a reward and whether the state is terminal.
sim == [reward : Rewards, terminal : BOOLEAN]

\* A step loop that never leaves on a terminal state.
is_terminal_never(state_reward_pair) == FALSE

\* state_reward_pair.is_terminal(): the break of the step loop.
is_terminal(state_reward_pair) == state_reward_pair.terminal

\* The gate written without the comparison of the registers.
should_update_always(current_action_state, next_action_state) == TRUE

\* The gate in front of current_q_table.update.
should_update(current_action_state, next_action_state) ==
    current_action_state.register # next_action_state.register

\* A None arm that leaves the step loop and goes on with the next initial state.
after_no_action_state_next_trial(pc) == "trial"

\* Where eval_fitness stands after a None arm: it has returned.
after_no_action_state(pc) == "done"

\* Stable insertion of a (score, table) pair into pairs sorted by score.
pair_insert(pairs, x) ==
    LET k == Cardinality({i \in 1..Len(pairs) : pairs[i][1] <= x[1]})
    IN  SubSeq(pairs, 1, k) \o <<x>> \o SubSeq(pairs, k + 1, Len(pairs))

\* sort_by on the scores.
RECURSIVE sort_by_score(_)
sort_by_score(pairs) ==
    IF pairs = <<>> THEN <<>>
    ELSE pair_insert(sort_by_score(SubSeq(pairs, 1, Len(pairs) - 1)), pairs[Len(pairs)])

\* The index taken as the last one.
median_index_last(len) == len - 1

\* The index swap_remove is called with.
median_index(len) == len \div 2

\* Vec::swap_remove: the element at a 0-based index.
swap_remove(pairs, index) == pairs[index + 1]

InitEp ==
    /\ IdleGa /\ IdleSurv /\ IdleCross /\ IdleFit /\ IdleQ
    /\ IdleQb /\ IdleCl /\ IdleCfg /\ IdleEv /\ IdleMore
    /\ ep_q_table = QTable_new(NActions, NRegisters, EpConsts)
    /\ ep_q_start = ep_q_table
    /\ ep_fitness = NotEvaluated
    /\ ep_states \in 0..MaxTrials
    /\ ep_max_episode_length \in 0..MaxEpisodeLength
    /\ ep_states + ep_max_episode_length <= MaxEpisodeWork
    /\ ep_trial = 0
    /\ ep_current_q_table = <<>>
    /\ ep_score = 0
    /\ ep_current_action_state = <<>>
    /\ ep_step = 0
    /\ ep_pairs = <<>>
    /\ ep_pc = "trial"
    /\ ep_sims = 0
    /\ ep_last = "none"
    /\ ep_sim_log = <<>>

\* The end of a trial: registers and environment reset, the pair pushed.
EndOfTrial(score, current_q_table) ==
    /\ ep_pairs' = Append(ep_pairs, <<score, current_q_table>>)
    /\ ep_pc' = "trial"

\* The head of the loop over the initial states: clone the table, place the
\* environment, take the first action state.
StartTrial ==
    /\ ep_pc = "trial"
    /\ ep_trial < ep_states
    /\ ep_trial' = ep_trial + 1
    /\ ep_step' = 0
    /\ ep_last' = "none"
    /\ ep_sim_log' = <<>>
    /\ \E action_state \in get_action_state(ep_q_table) :
        IF action_state = NoActionState
        THEN /\ ep_fitness' = OutOfBounds
             /\ ep_pc' = after_no_action_state(ep_pc)
             /\ UNCHANGED <<ep_current_q_table, ep_score, ep_current_action_state, ep_pairs>>
        ELSE /\ ep_current_q_table' = ep_q_table
             /\ ep_score' = 0
             /\ ep_current_action_state' = action_state
             /\ IF ep_max_episode_length = 0
                THEN EndOfTrial(0, ep_q_table)
                ELSE ep_pc' = "step" /\ UNCHANGED ep_pairs
             /\ UNCHANGED ep_fitness
    /\ UNCHANGED <<ep_q_table, ep_states, ep_max_episode_length, ep_sims, ep_q_start>>
    /\ UNCHANGED <<gaVars, survVars, crossVars, fitVars, qVars, qbVars, clVars, cfgVars,
                   evVars, moreVars>>

\* One pass of the step loop: act, take the next action state, update the
\* table when the register changed.
Step ==
    /\ ep_pc = "step"
    /\ ep_step' = ep_step + 1
    /\ ep_sims' = ep_sims + 1
    /\ \E state_reward_pair \in sim :
        LET score == ep_score + state_reward_pair.reward
        IN  /\ ep_score' = score
            /\ ep_sim_log' = Append(ep_sim_log, state_reward_pair)
            /\ IF is_terminal(state_reward_pair)
               THEN /\ EndOfTrial(score, ep_current_q_table)
                    /\ ep_last' = "none"
                    /\ UNCHANGED <<ep_fitness, ep_current_q_table, ep_current_action_state>>
               ELSE \E next_action_state \in get_action_state(ep_current_q_table) :
                    IF next_action_state = NoActionState
                    THEN /\ ep_fitness' = OutOfBounds
                         /\ ep_pc' = after_no_action_state(ep_pc)
                         /\ ep_last' = "none"
                         /\ UNCHANGED <<ep_current_q_table, ep_current_action_state, ep_pairs>>
                    ELSE \E argmax_index \in action_argmax(ep_current_q_table,
                                                           next_action_state.register) :
                         LET current_q_table ==
                                 IF should_update(ep_current_action_state, next_action_state)
                                 THEN update(ep_current_q_table, ep_current_action_state,
                                             state_reward_pair.reward, next_action_state,
                                             argmax_index)
                                 ELSE ep_current_q_table
                         IN  /\ ep_current_q_table' = current_q_table
                             /\ ep_current_action_state' = next_action_state
                             /\ ep_last' = IF ep_current_action_state.register
                                                = next_action_state.register
                                           THEN "same" ELSE "changed"
                             /\ IF ep_step + 1 = ep_max_episode_length
                                THEN EndOfTrial(score, current_q_table)
                                ELSE ep_pc' = "step" /\ UNCHANGED ep_pairs
                             /\ UNCHANGED ep_fitness
    /\ UNCHANGED <<ep_q_table, ep_states, ep_max_episode_length, ep_trial, ep_q_start>>
    /\ UNCHANGED <<gaVars, survVars, crossVars, fitVars, qVars, qbVars, clVars, cfgVars,
                   evVars, moreVars>>

\* After the last initial state: the median pair becomes fitness and table.
Finish ==
    /\ ep_pc = "trial"
    /\ ep_trial = ep_states
    /\ ep_pairs # <<>>
    /\ LET median_pair == swap_remove(sort_by_score(ep_pairs), median_index(Len(ep_pairs)))
       IN  /\ ep_fitness' = Valid(median_pair[1])
           /\ ep_q_table' = median_pair[2]
    /\ ep_pc' = "done"
    /\ UNCHANGED <<ep_states, ep_max_episode_length, ep_trial, ep_current_q_table, ep_score,
                   ep_current_action_state, ep_step, ep_pairs, ep_sims, ep_q_start, ep_last,
                   ep_sim_log>>
    /\ UNCHANGED <<gaVars, survVars, crossVars, fitVars, qVars, qbVars, clVars, cfgVars,
                   evVars, moreVars>>

\* swap_remove on an empty vector: index out of bounds.
FinishPanic ==
    /\ ep_pc = "trial"
    /\ ep_trial = ep_states
    /\ ep_pairs = <<>>
    /\ ep_pc' = "panic"
    /\ UNCHANGED <<ep_q_table, ep_fitness, ep_states, ep_max_episode_length, ep_trial,
                   ep_current_q_table, ep_score, ep_current_action_state, ep_step,
                   ep_pairs, ep_sims, ep_q_start, ep_last, ep_sim_log>>
    /\ UNCHANGED <<gaVars, survVars, crossVars, fitVars, qVars, qbVars, clVars, cfgVars,
                   evVars, moreVars>>

NextEp == StartTrial \/ Step \/ Finish \/ FinishPanic

SpecEp == InitEp /\ [][NextEp]_vars

\* ------------------------------------------- Breed and Mutate for QProgram
\* duplicate_new returning a clone of the table.
QTable_duplicate_new_clone(self) == self

\* DuplicateNew for QTable.
QTable_duplicate_new(self) == QTable_new(self.n_actions, self.n_registers, self.q_consts)

QProgram(table, program) == [q_table |-> table, program |-> program]

\* Breed for QProgram: every pair of children two_point_crossover can return.
qprogram_two_point_crossover(self, mate) ==
    {[k \in 1..2 |->
        QProgram(QTable_duplicate_new(self.q_table),
                 Program(two_point_crossover(self.program.instructions,
                                             mate.program.instructions, pa, pb)[k]))] :
        pa \in CrossPoints(self.program.instructions),
        pb \in CrossPoints(mate.program.instructions)}

\* Mutate for QProgram: every child mutate can return.
qprogram_mutate(self, max_instructions) ==
    {QProgram(QTable_duplicate_new(self.q_table), mutated) :
        mutated \in mutate(self.program, max_instructions)}

\* Tables a QProgram can carry after evaluations.
LearnedTables ==
    {[table |-> t, n_actions |-> NActions, n_registers |-> NRegisters, q_consts |-> k] :
        t \in [0..(NRegisters - 1) -> [0..(NActions - 1) -> {Rat(v) : v \in QValues}]],
        k \in QConsts}

InitQb ==
    /\ IdleGa /\ IdleSurv /\ IdleCross /\ IdleFit /\ IdleQ
    /\ IdleEp /\ IdleCl /\ IdleCfg /\ IdleEv /\ IdleMore
    /\ \E q \in LearnedTables :
        qb_self = QProgram(q, [instructions |-> <<1, 2>>, fitness |-> Valid(1)])
    /\ \E c \in {EpConsts, [alpha |-> <<1, 4>>, gamma |-> <<1, 8>>, epsilon |-> <<1, 2>>]} :
        qb_mate = QProgram(QTable_new(NActions, NRegisters, c),
                           [instructions |-> <<3>>, fitness |-> Valid(2)])
    /\ qb_children = <<>>
    /\ qb_op = "none"

QCrossover ==
    /\ qb_op = "none"
    /\ qb_children' \in qprogram_two_point_crossover(qb_self, qb_mate)
    /\ qb_op' = "two_point_crossover"
    /\ UNCHANGED <<qb_self, qb_mate>>
    /\ UNCHANGED <<gaVars, survVars, crossVars, fitVars, qVars, epVars, clVars, cfgVars,
                   evVars, moreVars>>

QMutate ==
    /\ qb_op = "none"
    /\ \E child \in qprogram_mutate(qb_self, MaxInstructions) : qb_children' = <<child>>
    /\ qb_op' = "mutate"
    /\ UNCHANGED <<qb_self, qb_mate>>
    /\ UNCHANGED <<gaVars, survVars, crossVars, fitVars, qVars, epVars, clVars, cfgVars,
                   evVars, moreVars>>

NextQb == QCrossover \/ QMutate

SpecQb == InitQb /\ [][NextQb]_vars

\* ------------------------------ classification: Program::eval_fitness
MaxInputs == 2
\* T::N_ACTION_REGISTERS; the registers hold one scratch register after them.
NActionRegisters == 2
\* Values exec can leave in a register.
RegisterValues == {0, 1}

\* &registers[0..T::N_ACTION_REGISTERS]
action_window(registers) == [i \in 0..(NActionRegisters - 1) |-> registers[i]]

\* argmax answering the lowest of the tied indices.
classification_argmax_first_of_ties(registers) ==
    LET action_registers == action_window(registers)
        max_value == max_val(action_registers)
        indices == {i \in DOMAIN action_registers : RatEq(action_registers[i], max_value)}
    IN  CHOOSE i \in indices : \A j \in indices : i <= j

\* ExtensionParameters for ClassificationParameters::argmax: the index of the
\* maximum of the action window, -1 when two or more registers hold it.
classification_argmax(registers) ==
    LET action_registers == action_window(registers)
        max_value == max_val(action_registers)
        indices == {i \in DOMAIN action_registers : RatEq(action_registers[i], max_value)}
    IN  IF Cardinality(indices) > 1 THEN -1 ELSE CHOOSE i \in indices : TRUE

\* A labelled input together with the registers exec leaves for it.
ClassificationInputs ==
    [class : 0..(NActionRegisters - 1),
     registers : [0..NActionRegisters -> {Rat(v) : v \in RegisterValues}]]

InitCl ==
    /\ IdleGa /\ IdleSurv /\ IdleCross /\ IdleFit /\ IdleQ
    /\ IdleEp /\ IdleQb /\ IdleCfg /\ IdleEv /\ IdleMore
    /\ cl_inputs \in SeqsOf(ClassificationInputs, 0, MaxInputs)
    /\ cl_visited = 0
    /\ cl_n_correct = 0
    /\ cl_fitness = <<>>
    /\ cl_pc = "loop"

\* One pass of the loop over the inputs: exec, argmax, compare, reset.
ClassifyInput ==
    /\ cl_pc = "loop"
    /\ cl_visited < Len(cl_inputs)
    /\ LET input == cl_inputs[cl_visited + 1]
           predicted_class == classification_argmax(input.registers)
           correct_class == input.class
       IN  cl_n_correct' = IF predicted_class = correct_class
                           THEN cl_n_correct + 1 ELSE cl_n_correct
    /\ cl_visited' = cl_visited + 1
    /\ UNCHANGED <<cl_inputs, cl_fitness, cl_pc>>
    /\ UNCHANGED <<gaVars, survVars, crossVars, fitVars, qVars, epVars, qbVars, cfgVars,
                   evVars, moreVars>>

\* After the loop: fitness = n_correct / inputs.len() (0 / 0 for no input).
ClassifyEnd ==
    /\ cl_pc = "loop"
    /\ cl_visited = Len(cl_inputs)
    /\ cl_fitness' = <<cl_n_correct, Len(cl_inputs)>>
    /\ cl_pc' = "done"
    /\ UNCHANGED <<cl_inputs, cl_visited, cl_n_correct>>
    /\ UNCHANGED <<gaVars, survVars, crossVars, fitVars, qVars, epVars, qbVars, cfgVars,
                   evVars, moreVars>>

NextCl == ClassifyInput \/ ClassifyEnd

SpecCl == InitCl /\ [][NextCl]_vars

\* ------------------------------------------------- GeneticAlgorithm::build
MaxCfgPop == 2

\* Every value the fields of a HyperParameters struct literal can be given,
\* among them gaps outside [0, 1] and percents that sum above 1.
AnyHyperParameters ==
    [population_size : 0..MaxCfgPop,
     gap : {<<-1, 2>>, <<0, 1>>, <<1, 2>>, <<1, 1>>, <<3, 2>>},
     mutation_percent : Percents,
     crossover_percent : Percents,
     n_generations : {0},
     max_instructions : {MaxInstructions}]

on_pre_init(parameters) == parameters

InitCfg ==
    /\ IdleGa /\ IdleSurv /\ IdleCross /\ IdleFit /\ IdleQ
    /\ IdleEp /\ IdleQb /\ IdleCl /\ IdleEv /\ IdleMore
    /\ cfg_params \in AnyHyperParameters
    /\ cfg_population = <<>>
    /\ cfg_pc = "params"

\* build: GeneticAlgorithmIter::new runs on_pre_init and init_pop and stores
\* the population.
Build ==
    /\ cfg_pc = "params"
    /\ cfg_params' = on_pre_init(cfg_params)
    /\ cfg_population' \in init_pop(on_pre_init(cfg_params))
    /\ cfg_pc' = "built"
    /\ UNCHANGED <<gaVars, survVars, crossVars, fitVars, qVars, epVars, qbVars, clVars,
                   evVars, moreVars>>

NextCfg == Build

SpecCfg == InitCfg /\ [][NextCfg]_vars

\* ------------------------------------------ GeneticAlgorithm::eval_fitness
MaxSurvivors == 2
MaxOffspring == 2

\* The call made only for an individual that carries no fitness yet.
calls_adapter_if_not_evaluated(individual) == is_not_evaluated(individual.fitness)

\* Whether the loop calls individual.eval_fitness: for every individual.
calls_adapter(individual) == TRUE

\* The populations next hands to eval_fitness: the survivors of the last
\* generation, which carry their Valid fitness, followed by the offspring of
\* variation, which are NotEvaluated (in generation 0 there are no survivors).
EvalPopulations ==
    {surv \o offs :
        surv \in SeqsOf({[instructions |-> <<1>>, fitness |-> Valid(x)] : x \in Scores},
                        0, MaxSurvivors),
        offs \in SeqsOf({Program(<<1>>)}, 0, MaxOffspring)}

InitEv ==
    /\ IdleGa /\ IdleSurv /\ IdleCross /\ IdleFit /\ IdleQ
    /\ IdleEp /\ IdleQb /\ IdleCl /\ IdleCfg /\ IdleMore
    /\ ev_population \in EvalPopulations
    /\ ev_before = ev_population
    /\ ev_visited = 0
    /\ ev_calls = [i \in 1..Len(ev_population) |-> 0]
    /\ ev_pc = "loop"

\* One pass of the loop over population.iter_mut(): the adapter writes a
\* fitness, and the assert! checks that one is there.
EvalIndividual ==
    /\ ev_pc = "loop"
    /\ ev_visited < Len(ev_population)
    /\ LET i == ev_visited + 1
       IN  /\ IF calls_adapter(ev_population[i])
              THEN /\ \E outcome \in EvalOutcomes :
                        ev_population' = [ev_population EXCEPT ![i].fitness = outcome]
                   /\ ev_calls' = [ev_calls EXCEPT ![i] = @ + 1]
              ELSE UNCHANGED <<ev_population, ev_calls>>
           /\ ev_pc' = IF is_not_evaluated(ev_population'[i].fitness) THEN "panic" ELSE "loop"
    /\ ev_visited' = ev_visited + 1
    /\ UNCHANGED ev_before
    /\ UNCHANGED <<gaVars, survVars, crossVars, fitVars, qVars, epVars, qbVars, clVars,
                   cfgVars, moreVars>>

\* The loop is over: eval_fitness returns the population.
EvalReturn ==
    /\ ev_pc = "loop"
    /\ ev_visited = Len(ev_population)
    /\ ev_pc' = "done"
    /\ UNCHANGED <<ev_population, ev_before, ev_visited, ev_calls>>
    /\ UNCHANGED <<gaVars, survVars, crossVars, fitVars, qVars, epVars, qbVars, clVars,
                   cfgVars, moreVars>>

NextEv == EvalIndividual \/ EvalReturn

SpecEv == InitEv /\ [][NextEv]_vars

\* ------------------------------------------- QTable::eval and QTable::update
\* Values of q_consts.epsilon, 3/2 among them, which eval's assert_le! rejects.
Epsilons == {<<0, 1>>, <<1, 2>>, <<1, 1>>, <<3, 2>>}
\* Values prob can take: UniformFloat::new_inclusive(0., 1.).
Probs == {<<0, 1>>, <<1, 2>>, <<1, 1>>}

\* A register that is not finite (0 / 0).
NaN == <<0, 0>>
is_finite(x) == x[2] # 0
RatLt(x, y) == x[1] * y[2] < y[1] * x[2]

\* The register vectors of a program with n_registers registers.
RegisterVectors(n_registers) ==
    [0..(n_registers - 1) -> {Rat(v) : v \in RegisterValues} \cup {NaN}]

\* Registers::all_argmax(None): the registers that hold the largest value; no
\* winner ({} for None) when a register is not finite.
all_argmax(registers) ==
    IF \A r \in DOMAIN registers : is_finite(registers[r]) THEN argmax(registers) ELSE {}

InitQe ==
    /\ IdleCore /\ IdleVr /\ IdleHk /\ IdleQl /\ IdleDt
    /\ \E t \in [0..(NRegisters - 1) -> [0..(NActions - 1) -> {Rat(v) : v \in QValues}]],
          e \in Epsilons :
        qe_table = [table |-> t, n_actions |-> NActions, n_registers |-> NRegisters,
                    q_consts |-> [alpha |-> <<1, 2>>, gamma |-> <<1, 2>>, epsilon |-> e]]
    /\ qe_before = <<>>
    /\ qe_registers = <<>>
    /\ qe_pairs = <<>>
    /\ qe_branches = <<>>
    /\ qe_op = "none"

\* One call of eval (&self) on the registers a program left.
QeEval ==
    /\ qe_op \in {"none", "eval"}
    /\ Len(qe_pairs) < 2
    /\ qe_before' = qe_table
    /\ \E registers \in RegisterVectors(qe_table.n_registers), prob \in Probs :
        LET winning_registers == all_argmax(registers)
            epsilon == qe_table.q_consts.epsilon
        IN  /\ qe_registers' = registers
            /\ IF winning_registers = {}
               THEN /\ qe_op' = "eval"
                    /\ UNCHANGED <<qe_pairs, qe_branches>>
               ELSE IF ~(RatLe(epsilon, Rat(1)) /\ RatLe(Rat(0), epsilon))
               THEN /\ qe_op' = "panic"
                    /\ UNCHANGED <<qe_pairs, qe_branches>>
               ELSE \E winning_register \in winning_registers :
                    \E winning_action \in (IF RatLt(prob, epsilon)
                                           THEN action_random(qe_table)
                                           ELSE action_argmax(qe_table, winning_register)) :
                        /\ qe_pairs' = Append(qe_pairs, [action |-> winning_action,
                                                         register |-> winning_register])
                        /\ qe_branches' = Append(qe_branches,
                                                 IF RatLt(prob, epsilon)
                                                 THEN "explore" ELSE "exploit")
                        /\ qe_op' = "eval"
    /\ UNCHANGED qe_table
    /\ UNCHANGED <<coreVars, vrVars, hkVars, qlVars, dtVars>>

\* update(&mut self) with the two pairs eval returned.
QeUpdate ==
    /\ qe_op = "eval"
    /\ Len(qe_pairs) = 2
    /\ \E current_reward \in Rewards,
          argmax_index \in action_argmax(qe_table, qe_pairs[2].register) :
        qe_table' = update(qe_table, qe_pairs[1], current_reward, qe_pairs[2], argmax_index)
    /\ qe_before' = qe_table
    /\ qe_op' = "update"
    /\ UNCHANGED <<qe_registers, qe_pairs, qe_branches>>
    /\ UNCHANGED <<coreVars, vrVars, hkVars, qlVars, dtVars>>

NextQe == QeEval \/ QeUpdate

SpecQe == InitQe /\ [][NextQe]_vars

\* ---------------------------------------------- GeneticAlgorithm::variation
MaxVrCap == 3
MaxVrInstructions == 3

\* The populations survive can hand to variation: ranked, evaluated, not empty,
\* and no longer than the capacity.
SurvivorPopulations(pop_cap) ==
    {rank(population) :
        population \in SeqsOf([instructions : SeqsOf(GaInstruction, 1, MaxVrInstructions),
                               fitness : {Valid(x) : x \in Scores}], 1, pop_cap)}

InitVr ==
    /\ IdleCore /\ IdleQe /\ IdleHk /\ IdleQl /\ IdleDt
    /\ vr_capacity \in 1..MaxVrCap
    /\ vr_survivors \in SurvivorPopulations(vr_capacity)
    /\ vr_params \in {hp \in [mutation_percent : Percents, crossover_percent : Percents,
                               max_instructions : {MaxVrInstructions}] :
                        SumAtMostOne(hp.mutation_percent, hp.crossover_percent)}
    /\ vr_population = <<>>
    /\ vr_pc = "call"

\* variation on a population for which none of its assertions fails.
Variation ==
    /\ vr_pc = "call"
    /\ ~variation_panics(vr_survivors, vr_capacity, vr_params, TRUE)
    /\ vr_population' \in variation(vr_survivors, vr_capacity, vr_params)
    /\ vr_pc' = "done"
    /\ UNCHANGED <<vr_survivors, vr_capacity, vr_params>>
    /\ UNCHANGED <<coreVars, qeVars, hkVars, qlVars, dtVars>>

NextVr == Variation

SpecVr == InitVr /\ [][NextVr]_vars

\* ------------------------------------- GeneticAlgorithmIter::next and hooks
MaxHkGen == 2
\* fitness_parameters: the initial states of the trials, in their order.
MaxHkStates == 3

\* A hook an implementor overrides: "default" hands the parameters back,
\* "rotate" hands them back with the initial states rotated by one.
HookKinds == {"default", "rotate"}

rotate(fitness_parameters) == Tail(fitness_parameters) \o <<Head(fitness_parameters)>>

RECURSIVE rotations(_, _)
rotations(fitness_parameters, n) ==
    IF n = 0 THEN {fitness_parameters}
    ELSE {fitness_parameters} \cup rotations(rotate(fitness_parameters), n - 1)

\* on_pre_eval_fitness and on_post_rank as the parameters see them.
hook(kind, parameters) ==
    IF kind = "rotate"
    THEN [parameters EXCEPT !.fitness_parameters = rotate(@)]
    ELSE parameters

InitHk ==
    /\ IdleCore /\ IdleQe /\ IdleVr /\ IdleQl /\ IdleDt
    /\ hk_params \in [n_generations : 0..MaxHkGen,
                       fitness_parameters : rotations([i \in 1..MaxHkStates |-> i], MaxHkStates)]
    /\ hk_hooks \in [on_pre_eval_fitness : HookKinds, on_post_rank : HookKinds]
    /\ hk_generation = 0
    /\ hk_local = <<>>
    /\ hk_hooked = <<>>
    /\ hk_evaluated_with = <<>>
    /\ hk_pc = "head"

\* next returns None.
HkNone ==
    /\ hk_pc = "head"
    /\ hk_generation > hk_params.n_generations
    /\ hk_pc' = "none"
    /\ UNCHANGED <<hk_params, hk_hooks, hk_generation, hk_local, hk_hooked, hk_evaluated_with>>
    /\ UNCHANGED <<coreVars, qeVars, vrVars, qlVars, dtVars>>

\* let mut params = self.params.clone();
HkClone ==
    /\ hk_pc = "head"
    /\ ~(hk_generation > hk_params.n_generations)
    /\ hk_local' = hk_params
    /\ hk_pc' = "pre_eval"
    /\ UNCHANGED <<hk_params, hk_hooks, hk_generation, hk_hooked, hk_evaluated_with>>
    /\ UNCHANGED <<coreVars, qeVars, vrVars, qlVars, dtVars>>

\* (population, params) = G::on_pre_eval_fitness(population, params);
HkOnPreEvalFitness ==
    /\ hk_pc = "pre_eval"
    /\ hk_local' = hook(hk_hooks.on_pre_eval_fitness, hk_local)
    /\ hk_pc' = "eval"
    /\ UNCHANGED <<hk_params, hk_hooks, hk_generation, hk_hooked, hk_evaluated_with>>
    /\ UNCHANGED <<coreVars, qeVars, vrVars, qlVars, dtVars>>

\* G::eval_fitness and G::rank: the organisms are evaluated with
\* params.fitness_parameters.
HkEvalFitness ==
    /\ hk_pc = "eval"
    /\ hk_evaluated_with' = hk_local.fitness_parameters
    /\ hk_pc' = "post_rank"
    /\ UNCHANGED <<hk_params, hk_hooks, hk_generation, hk_local, hk_hooked>>
    /\ UNCHANGED <<coreVars, qeVars, vrVars, qlVars, dtVars>>

\* (population, params) = G::on_post_rank(population, params);
HkOnPostRank ==
    /\ hk_pc = "post_rank"
    /\ hk_local' = hook(hk_hooks.on_post_rank, hk_local)
    /\ hk_pc' = "tail"
    /\ UNCHANGED <<hk_params, hk_hooks, hk_generation, hk_hooked, hk_evaluated_with>>
    /\ UNCHANGED <<coreVars, qeVars, vrVars, qlVars, dtVars>>

\* survive and variation take params; what variation returns of it is dropped,
\* next_population and generation are stored, self.params is not assigned.
HkStore ==
    /\ hk_pc = "tail"
    /\ hk_hooked' = hk_local
    /\ hk_local' = <<>>
    /\ hk_generation' = hk_generation + 1
    /\ hk_pc' = "head"
    /\ UNCHANGED <<hk_params, hk_hooks, hk_evaluated_with>>
    /\ UNCHANGED <<coreVars, qeVars, vrVars, qlVars, dtVars>>

NextHk == HkNone \/ HkClone \/ HkOnPreEvalFitness \/ HkEvalFitness \/ HkOnPostRank \/ HkStore

SpecHk == InitHk /\ [][NextHk]_vars

\* ---------------------------------------------- GeneticAlgorithm for QLgp
MaxQlPop == 2
MaxQlGen == 1

\* QLgp leaves on_pre_eval_fitness at the default of the trait: no call.
QLgp_on_pre_eval_fitness(log) == log

\* QLgp::on_pre_rank: environment.init().
QLgp_on_pre_rank(log) == Append(log, "init")

\* QLgp::on_post_rank: environment.finish().
QLgp_on_post_rank(log) == Append(log, "finish")

\* QProgram::eval_fitness on one organism: when its trials complete it ends with
\* parameters.environment.finish(); when a trial finds no winning register it
\* returns before that.
QProgram_eval_fitness(log, completed) ==
    (IF completed THEN Append(log, "finish") ELSE log) \o <<"evaluated">>

InitQl ==
    /\ IdleCore /\ IdleQe /\ IdleVr /\ IdleHk /\ IdleDt
    /\ ql_n_generations \in 0..MaxQlGen
    /\ ql_capacity \in 1..MaxQlPop
    /\ ql_len = ql_capacity
    /\ ql_calls_on_pre_rank \in BOOLEAN
    /\ ql_generation = 0
    /\ ql_visited = 0
    /\ ql_log = <<>>
    /\ ql_pc = "head"

\* next returns None.
QlNone ==
    /\ ql_pc = "head"
    /\ ql_generation > ql_n_generations
    /\ ql_pc' = "none"
    /\ UNCHANGED <<ql_n_generations, ql_capacity, ql_len, ql_calls_on_pre_rank, ql_generation,
                   ql_visited, ql_log>>
    /\ UNCHANGED <<coreVars, qeVars, vrVars, hkVars, dtVars>>

\* The head of a pull and G::on_pre_eval_fitness.
QlOnPreEvalFitness ==
    /\ ql_pc = "head"
    /\ ~(ql_generation > ql_n_generations)
    /\ ql_log' = QLgp_on_pre_eval_fitness(<<>>)
    /\ ql_visited' = 0
    /\ ql_pc' = "eval"
    /\ UNCHANGED <<ql_n_generations, ql_capacity, ql_len, ql_calls_on_pre_rank, ql_generation>>
    /\ UNCHANGED <<coreVars, qeVars, vrVars, hkVars, dtVars>>

\* One pass of the loop of G::eval_fitness.
QlEvalIndividual ==
    /\ ql_pc = "eval"
    /\ ql_visited < ql_len
    /\ \E completed \in BOOLEAN : ql_log' = QProgram_eval_fitness(ql_log, completed)
    /\ ql_visited' = ql_visited + 1
    /\ UNCHANGED <<ql_n_generations, ql_capacity, ql_len, ql_calls_on_pre_rank, ql_generation,
                   ql_pc>>
    /\ UNCHANGED <<coreVars, qeVars, vrVars, hkVars, dtVars>>

\* The end of G::eval_fitness, and the on_pre_rank slot in a driver that has it.
QlOnPreRank ==
    /\ ql_pc = "eval"
    /\ ql_visited = ql_len
    /\ ql_log' = IF ql_calls_on_pre_rank THEN QLgp_on_pre_rank(ql_log) ELSE ql_log
    /\ ql_pc' = "rank"
    /\ UNCHANGED <<ql_n_generations, ql_capacity, ql_len, ql_calls_on_pre_rank, ql_generation,
                   ql_visited>>
    /\ UNCHANGED <<coreVars, qeVars, vrVars, hkVars, dtVars>>

\* G::rank and G::on_post_rank.
QlRank ==
    /\ ql_pc = "rank"
    /\ ql_log' = QLgp_on_post_rank(Append(ql_log, "ranked"))
    /\ ql_pc' = "tail"
    /\ UNCHANGED <<ql_n_generations, ql_capacity, ql_len, ql_calls_on_pre_rank, ql_generation,
                   ql_visited>>
    /\ UNCHANGED <<coreVars, qeVars, vrVars, hkVars, dtVars>>

\* survive and variation leave a population of at most capacity organisms.
QlStore ==
    /\ ql_pc = "tail"
    /\ ql_len' \in 1..ql_capacity
    /\ ql_generation' = ql_generation + 1
    /\ ql_pc' = "head"
    /\ UNCHANGED <<ql_n_generations, ql_capacity, ql_calls_on_pre_rank, ql_visited, ql_log>>
    /\ UNCHANGED <<coreVars, qeVars, vrVars, hkVars, dtVars>>

NextQl == QlNone \/ QlOnPreEvalFitness \/ QlEvalIndividual \/ QlOnPreRank \/ QlRank \/ QlStore

SpecQl == InitQl /\ [][NextQl]_vars

\* ------------------------- the generation iterator with classification fitness
MaxDtPop == 3
MaxDtGen == 1
MaxDtInstructions == 3
\* Gaps below 1.
DtGaps == {<<0, 1>>, <<1, 4>>, <<1, 2>>}

\* Configurations that leave at least one survivor: floor((1 - gap) * len) >= 1.
DtHyperParameters ==
    {hp \in [population_size : 1..MaxDtPop,
             gap : DtGaps,
             mutation_percent : Percents,
             crossover_percent : Percents,
             n_generations : 0..MaxDtGen,
             max_instructions : {MaxDtInstructions}] :
        /\ SumAtMostOne(hp.mutation_percent, hp.crossover_percent)
        /\ FloorMul(hp.population_size, OneMinus(hp.gap)) >= 1}

\* Fitness for Program<ClassificationParameters>::eval_fitness on a fixed input
\* set: n_correct / inputs.len() depends on nothing but the instructions, so
\* it is the value the adapter has for them.
classification_eval_fitness(individual, adapter) == Valid(adapter[individual.instructions])

InitDt ==
    /\ IdleCore /\ IdleQe /\ IdleVr /\ IdleHk /\ IdleQl
    /\ dt_params \in DtHyperParameters
    /\ dt_adapter = <<>>
    /\ dt_generation = 0
    /\ dt_next_population \in init_pop(dt_params)
    /\ dt_snapshot = <<>>
    /\ dt_previous = <<>>
    /\ dt_last = "new"

\* next returns None.
DtNone ==
    /\ is_exhausted(dt_generation, dt_params)
    /\ dt_last' = "none"
    /\ UNCHANGED <<dt_params, dt_adapter, dt_generation, dt_next_population, dt_snapshot,
                   dt_previous>>
    /\ UNCHANGED <<coreVars, qeVars, vrVars, hkVars, qlVars>>

\* next returns Some(population).  The adapter has a score for every program
\* it met before and settles one for each program it meets for the first time.
DtSome ==
    /\ ~is_exhausted(dt_generation, dt_params)
    /\ LET met == {dt_next_population[i].instructions : i \in 1..Len(dt_next_population)}
       IN  \E first_scores \in [met \ DOMAIN dt_adapter -> Scores] :
            LET adapter == [ins \in met \cup DOMAIN dt_adapter |->
                                IF ins \in DOMAIN dt_adapter
                                THEN dt_adapter[ins] ELSE first_scores[ins]]
                outcome == [i \in 1..Len(dt_next_population) |->
                                classification_eval_fitness(dt_next_population[i], adapter)]
                population ==
                    on_post_rank(rank(eval_fitness(on_pre_eval_fitness(dt_next_population),
                                                   outcome)))
                remaining == survive(population, dt_params.gap)
            IN  /\ all_evaluated(population)
                /\ ~variation_panics(remaining, dt_params.population_size, dt_params, TRUE)
                /\ \E new_population \in
                        variation(remaining, dt_params.population_size, dt_params) :
                    /\ dt_next_population' = new_population
                    /\ dt_snapshot' = yielded_item(population, new_population)
                /\ dt_adapter' = adapter
    /\ dt_previous' = dt_snapshot
    /\ dt_generation' = dt_generation + 1
    /\ dt_last' = "some"
    /\ UNCHANGED dt_params
    /\ UNCHANGED <<coreVars, qeVars, vrVars, hkVars, qlVars>>

NextDt == DtNone \/ DtSome

SpecDt == InitDt /\ [][NextDt]_vars

\* ================================================================== claims
AllValid(population) == \A i \in 1..Len(population) : population[i].fitness.tag = "Valid"
NValid(population) == Cardinality({i \in 1..Len(population) : population[i].fitness.tag = "Valid"})
\* The n organisms at the best end of a ranked population.
BestOf(population, n) == SubSeq(population, Len(population) - n + 1, Len(population))
\* floor((1 - gap) * len)
Quota(population, gap) == FloorMul(Len(population), OneMinus(gap))

\* C1: the iterator yields one population per generation 0..n_generations and
\* no more, and it returns None only after exactly n_generations + 1
\* populations were yielded (a pull that aborts yields nothing and returns
\* nothing).
C1_YieldsNGenerationsPlusOne ==
    /\ yielded = generation
    /\ yielded <= params.n_generations + 1
    /\ last = "none" => yielded = params.n_generations + 1
    /\ last = "some" => yielded >= 1

C1_Witness ==
    /\ last = "none"
    /\ params.n_generations = MaxGen
    /\ yielded = MaxGen + 1

\* C2: after variation the population length equals its capacity, also when
\* more clone slots are left than there are survivors.  Stated for a variation
\* entered with at least one survivor; entering it with none is C20.
C2_LenEqualsCapacity ==
    (last = "some" /\ survivors # <<>>) => Len(next_population) = capacity

\* C3: no organism of a yielded population has the fitness NotEvaluated.
C3_SnapshotEvaluated ==
    \A i \in 1..Len(snapshot) : snapshot[i].fitness # NotEvaluated

\* A second snapshot, which holds the offspring variation created unevaluated.
C3_Witness ==
    /\ last = "some"
    /\ yielded = 2
    /\ Len(snapshot) = MaxPop
    /\ \E i \in 1..Len(next_population) : next_population[i].fitness = NotEvaluated

\* C4: on a ranked population of Valid organisms survive removes exactly
\* len - floor((1 - gap) * len) organisms and leaves the floor((1 - gap) * len)
\* best ones, in their order.
C4_SurviveKeepsBest ==
    (sv_pc = "done" /\ AllValid(sv_population)) =>
        /\ Len(sv_population) - Len(sv_survivors)
                = Len(sv_population) - Quota(sv_population, sv_gap)
        /\ sv_survivors = BestOf(sv_population, Quota(sv_population, sv_gap))

C4_Witness ==
    /\ sv_pc = "done"
    /\ AllValid(sv_population)
    /\ Len(sv_population) = 3
    /\ sv_gap = <<1, 2>>
    /\ Len(sv_survivors) = 1
    /\ fit_lt(sv_population[2].fitness, sv_survivors[1].fitness)

\* C5: on a ranked population survive leaves no OutOfBounds organism, and it
\* leaves the min(floor((1 - gap) * len), number of Valid organisms) best ones:
\* OutOfBounds organisms go first and use up the gap quota.
C5_SurviveDropsInvalidFirst ==
    sv_pc = "done" =>
        /\ \A i \in 1..Len(sv_survivors) : sv_survivors[i].fitness # OutOfBounds
        /\ Len(sv_survivors) = Min(Quota(sv_population, sv_gap), NValid(sv_population))
        /\ sv_survivors = BestOf(sv_population, Len(sv_survivors))

\* [OutOfBounds, Valid, Valid, Valid] with gap 0.25: the one drop is the
\* OutOfBounds organism.
C5_Witness ==
    /\ sv_pc = "done"
    /\ Len(sv_population) = 4
    /\ sv_population[1].fitness = OutOfBounds
    /\ NValid(sv_population) = 3
    /\ sv_gap = <<1, 4>>
    /\ sv_survivors = Tail(sv_population)

\* C6: both children of two_point_crossover have at least one instruction and
\* at most |A| + |B|, also when the parents are children of an earlier call.
C6_ChildLengths ==
    cx_rounds > 0 =>
        \A k \in 1..2 :
            /\ Len(cx_parents[k]) >= 1
            /\ Len(cx_parents[k]) <= Len(cx_before[1]) + Len(cx_before[2])

\* A second call, on children of unequal length, one of them longer than
\* either first parent.
C6_Witness ==
    /\ cx_rounds = 2
    /\ Len(cx_before[1]) # Len(cx_before[2])
    /\ Len(cx_parents[1]) > MaxCrossLen

\* C7: every program of every population of a run has between 1 and
\* max_instructions instructions.
C7_InstructionsWithinMax ==
    /\ \A i \in 1..Len(next_population) :
        /\ Len(next_population[i].instructions) >= 1
        /\ Len(next_population[i].instructions) <= params.max_instructions
    /\ \A i \in 1..Len(snapshot) :
        /\ Len(snapshot[i].instructions) >= 1
        /\ Len(snapshot[i].instructions) <= params.max_instructions

\* C8: partial_cmp is a total order up to the equivalence of NotEvaluated and
\* OutOfBounds: every pair compares, the answers are antisymmetric and
\* transitive, the two non-Valid scores are Equal and Less than every Valid,
\* and Valid(a) is Greater than Valid(b) exactly when a > b.
C8_TotalOrder ==
    fs_cmp # <<>> =>
        /\ \A i, j \in 1..3 :
            /\ fs_cmp[i][j] \in {"Less", "Equal", "Greater"}
            /\ (fs_cmp[i][j] = "Less") = (fs_cmp[j][i] = "Greater")
            /\ (fs_cmp[i][j] = "Equal") = (fs_cmp[j][i] = "Equal")
            /\ (fs_scores[i].tag # "Valid" /\ fs_scores[j].tag # "Valid")
                    => fs_cmp[i][j] = "Equal"
            /\ (fs_scores[i].tag # "Valid" /\ fs_scores[j].tag = "Valid")
                    => fs_cmp[i][j] = "Less"
            /\ (fs_scores[i].tag = "Valid" /\ fs_scores[j].tag = "Valid")
                    => ((fs_cmp[i][j] = "Greater") = (fs_scores[i].v > fs_scores[j].v))
        /\ \A i, j, k \in 1..3 :
            (fs_cmp[i][j] # "Greater" /\ fs_cmp[j][k] # "Greater")
                => /\ fs_cmp[i][k] # "Greater"
                   /\ fs_cmp[i][k] = "Equal" => (fs_cmp[i][j] = "Equal" /\ fs_cmp[j][k] = "Equal")

C8_Witness ==
    /\ fs_cmp # <<>>
    /\ fs_scores = <<NotEvaluated, OutOfBounds, Valid(MaxScore)>>
    /\ fs_cmp[1][2] = "Equal"
    /\ fs_cmp[2][3] = "Less"

\* C9: in every ranked population worst <= median <= best, with worst the
\* first, best the last and median the organism at index len / 2.
C9_WorstMedianBest ==
    (last = "some" /\ snapshot # <<>>) =>
        /\ fit_le(worst(snapshot).fitness, median(snapshot).fitness)
        /\ fit_le(median(snapshot).fitness, best(snapshot).fitness)

\* A ranked population with three different ranks.
C9_Witness ==
    /\ last = "some"
    /\ Len(snapshot) = 3
    /\ fit_lt(worst(snapshot).fitness, median(snapshot).fitness)
    /\ fit_lt(median(snapshot).fitness, best(snapshot).fitness)

\* C10: update changes the cell of the current pair by
\* alpha * (reward + gamma * (largest value of the next register's row) - cell).
\* Stated for a next row with a single largest value, where the index
\* action_argmax returns does not depend on how ties are broken.
C10_UpdateBootstrapsOnMaxValue ==
    (q_before # <<>> /\ Cardinality(action_argmax(q_before, q_call.next.register)) = 1) =>
        LET cell(t) == t.table[q_call.current.register][q_call.current.action]
            target == RatMul(q_before.q_consts.alpha,
                             RatSub(RatAdd(Rat(q_call.reward),
                                           RatMul(q_before.q_consts.gamma,
                                                  max_val(q_before.table[q_call.next.register]))),
                                    cell(q_before)))
        IN  RatEq(RatSub(cell(q_table), cell(q_before)), target)

\* C11: a pass of the step loop whose next pair has the register of the
\* current pair leaves the working table as it was; within a trial the working
\* table changes only in a pass where the two registers differ.
C11_UpdateOnlyOnRegisterChange ==
    [][(ep_pc = "step" /\ ep_current_q_table' # ep_current_q_table)
            => /\ ep_step' = ep_step + 1
               /\ ep_fitness' = ep_fitness
               /\ ep_current_action_state'.register # ep_current_action_state.register]_vars

\* A pass with reward -1 in which the register stayed: an update would have
\* changed the cell, and the table is still the stored one.
C11_Witness ==
    /\ ep_pc = "step"
    /\ ep_last = "same"
    /\ ep_score = -1
    /\ ep_step = 1
    /\ ep_current_q_table = ep_q_table

\* The score at index floor(k / 2) of the ascending scores: at most floor(k / 2)
\* scores lie below it and more than floor(k / 2) do not lie above it.
IsMedianScore(pairs, x) ==
    /\ Cardinality({i \in 1..Len(pairs) : pairs[i][1] < x}) <= Len(pairs) \div 2
    /\ Cardinality({i \in 1..Len(pairs) : pairs[i][1] <= x}) > Len(pairs) \div 2

\* C12: when all k >= 1 trials complete, the fitness is Valid(s) with s the
\* score at index floor(k / 2) of the trial scores sorted ascending, and the
\* program's table is the working table of a trial that scored s.
C12_MedianOfTrials ==
    ep_pc = "done" /\ ep_fitness # OutOfBounds =>
        /\ Len(ep_pairs) = ep_states
        /\ ep_fitness.tag = "Valid"
        /\ IsMedianScore(ep_pairs, ep_fitness.v)
        /\ \E i \in 1..Len(ep_pairs) : ep_pairs[i] = <<ep_fitness.v, ep_q_table>>

\* Three trials scoring 0, -1 and -1 in this order, each with its own table:
\* sorted they are second, third, first, and the program ends with -1 and the
\* table of the third trial.
C12_Witness ==
    /\ ep_pc = "done"
    /\ Len(ep_pairs) = 3
    /\ ep_pairs[1][1] = 0 /\ ep_pairs[2][1] = -1 /\ ep_pairs[3][1] = -1
    /\ ep_pairs[1][2] # ep_pairs[2][2]
    /\ ep_pairs[3][2] # ep_pairs[2][2]
    /\ ep_pairs[3][2] # ep_pairs[1][2]
    /\ ep_fitness = Valid(-1)
    /\ ep_q_table = ep_pairs[3][2]

\* C15: once a trial finds no winning register the fitness is OutOfBounds,
\* eval_fitness has returned, the stored table is the one the evaluation
\* started with, and no further sim call or initial state follows.
C15_NoWinnerEndsEvaluation ==
    [][/\ ep_fitness' = OutOfBounds =>
            /\ ep_pc' = "done"
            /\ ep_q_table' = ep_q_start'
       /\ ep_fitness = OutOfBounds =>
            /\ ep_sims' = ep_sims
            /\ ep_trial' = ep_trial
            /\ ep_fitness' = OutOfBounds]_vars

\* No winner at a later step of the third trial, after two completed trials.
C15_Witness ==
    /\ ep_fitness = OutOfBounds
    /\ ep_pc = "done"
    /\ Len(ep_pairs) = 2
    /\ ep_trial = 3
    /\ ep_sims >= 3
    /\ ep_q_table = ep_q_start
    /\ ep_pairs[1][2] # ep_q_start

\* C13: the table of every child of two_point_crossover or mutate, a table made
\* by duplicate_new, has 0 in every cell and the dimensions and constants of
\* the parent's table.
C13_DuplicateNewIsZeroed ==
    qb_op # "none" =>
        \A k \in 1..Len(qb_children) :
            LET child == qb_children[k].q_table
                parent == qb_self.q_table
            IN  /\ child.n_actions = parent.n_actions
                /\ child.n_registers = parent.n_registers
                /\ child.q_consts = parent.q_consts
                /\ DOMAIN child.table = DOMAIN parent.table
                /\ \A r \in DOMAIN child.table :
                    /\ DOMAIN child.table[r] = DOMAIN parent.table[r]
                    /\ \A a \in DOMAIN child.table[r] : child.table[r][a] = Rat(0)

\* Two crossover children of a parent whose table has no cell left at 0 and
\* whose constants differ from the mate's.
C13_Witness ==
    /\ qb_op = "two_point_crossover"
    /\ Len(qb_children) = 2
    /\ \A r \in DOMAIN qb_self.q_table.table :
        \A a \in DOMAIN qb_self.q_table.table[r] : qb_self.q_table.table[r][a] # Rat(0)
    /\ qb_self.q_table.q_consts # qb_mate.q_table.q_consts
    /\ qb_children[1].program.instructions # qb_self.program.instructions

\* The registers of the action window that hold its largest value.
WindowMaximisers(registers) ==
    {i \in 0..(NActionRegisters - 1) :
        \A j \in 0..(NActionRegisters - 1) : RatLe(registers[j], registers[i])}

\* The inputs whose action window has a single largest register, which is the
\* register of the input's class.
CorrectInputs(inputs) ==
    {k \in 1..Len(inputs) : WindowMaximisers(inputs[k].registers) = {inputs[k].class}}

\* C14: for a non-empty input set the fitness is the number of inputs whose
\* action-window argmax is a single index equal to the class, over the number
\* of inputs, a value in [0, 1]; an input with a tied window is not counted.
C14_ClassificationAccuracy ==
    (cl_pc = "done" /\ cl_inputs # <<>>) =>
        /\ cl_fitness = <<Cardinality(CorrectInputs(cl_inputs)), Len(cl_inputs)>>
        /\ RatLe(Rat(0), cl_fitness)
        /\ RatLe(cl_fitness, Rat(1))

\* Two inputs of class 0: one with register 0 alone at the maximum, one with
\* registers 0 and 1 tied; the fitness is 1 / 2.
C14_Witness ==
    /\ cl_pc = "done"
    /\ Len(cl_inputs) = 2
    /\ cl_inputs[1].class = 0 /\ cl_inputs[2].class = 0
    /\ WindowMaximisers(cl_inputs[1].registers) = {0}
    /\ WindowMaximisers(cl_inputs[2].registers) = {0, 1}
    /\ cl_inputs[1].registers[NActionRegisters] = Rat(1)
    /\ cl_fitness = <<1, 2>>

\* The constraints of the configuration.
ValidConfiguration(hp) ==
    /\ hp.population_size > 0
    /\ RatLe(Rat(0), hp.gap) /\ RatLe(hp.gap, Rat(1))
    /\ SumAtMostOne(hp.mutation_percent, hp.crossover_percent)

\* C16: hyperparameters with mutation_percent + crossover_percent > 1, a gap
\* outside [0, 1] or population_size 0 are rejected before a population is
\* generated: a built iterator has a valid configuration.
C16_InvalidConfigRejected ==
    cfg_pc = "built" => ValidConfiguration(cfg_params)

\* How many organisms of a population carry the given instructions.
CountOf(population, instructions) ==
    Cardinality({i \in 1..Len(population) : population[i].instructions = instructions})

\* C17: the population a pull returns is the population the pull started with,
\* evaluated and sorted ascending by fitness: the survivors are its best end,
\* the organisms survive dropped are still in it, and the offspring variation
\* appended to the survivors (all NotEvaluated) are not.
C17_YieldsRankedPreVariation ==
    [][(last' = "some" /\ yielded' = yielded + 1) =>
            /\ Len(snapshot') = Len(next_population)
            /\ \A i \in 1..Len(next_population) :
                CountOf(snapshot', next_population[i].instructions)
                    = CountOf(next_population, next_population[i].instructions)
            /\ \A i, j \in 1..Len(snapshot') :
                i < j => fit_le(snapshot'[i].fitness, snapshot'[j].fitness)
            /\ Len(survivors') <= Len(snapshot')
            /\ survivors' = BestOf(snapshot', Len(survivors'))
            /\ SubSeq(next_population', 1, Len(survivors')) = survivors'
            /\ \A k \in (Len(survivors') + 1)..Len(next_population') :
                next_population'[k].fitness = NotEvaluated
            /\ \A i \in 1..Len(snapshot') : snapshot'[i].fitness # NotEvaluated]_vars

\* A yielded population of three whose worst organism is OutOfBounds: survive
\* dropped it and another one, variation appended offspring to the survivor.
C17_Witness ==
    /\ last = "some"
    /\ Len(snapshot) = 3
    /\ snapshot[1].fitness = OutOfBounds
    /\ fit_lt(snapshot[2].fitness, snapshot[3].fitness)
    /\ survivors = <<snapshot[3]>>
    /\ Len(next_population) > 1
    /\ next_population[2].fitness = NotEvaluated
    /\ Len(next_population[2].instructions) # Len(snapshot[3].instructions)

\* C20: with population_size >= 2, 0 <= gap <= 1 and mutation_percent +
\* crossover_percent <= 1, variation is never entered with an empty
\* population.
C20_VariationNeverEmpty ==
    (last \in {"some", "panic"} /\ params.population_size >= 2) => survivors # <<>>

\* C19 as claimed: the adapter is invoked only on organisms whose fitness is
\* NotEvaluated; an organism that came in with a fitness is not evaluated.
C19_OnlyNotEvaluatedAreEvaluated ==
    ev_pc = "done" =>
        \A i \in 1..Len(ev_before) :
            ev_calls[i] > 0 => is_not_evaluated(ev_before[i].fitness)

\* C19 as amended: when eval_fitness returns, the adapter was invoked exactly
\* once on every organism of the population, whatever fitness it came in with.
C19_EveryOrganismEvaluated ==
    ev_pc = "done" => \A i \in 1..Len(ev_before) : ev_calls[i] = 1

\* A survivor that came in with Valid(1) was evaluated again and now carries
\* another fitness, next to an offspring evaluated for the first time.
C19_Witness ==
    /\ ev_pc = "done"
    /\ Len(ev_before) = 2
    /\ ev_before[1].fitness = Valid(1)
    /\ ev_before[2].fitness = NotEvaluated
    /\ ev_calls[1] = 1
    /\ ev_population[1].fitness = OutOfBounds
    /\ ev_population[2].fitness = Valid(2)

\* C29: equality of FitnessScore agrees with its ordering: a == b holds
\* exactly when partial_cmp(a, b) is Equal, also for OutOfBounds and
\* NotEvaluated.
C29_EqAgreesWithOrdering ==
    fs_cmp # <<>> =>
        \A i, j \in 1..3 : fs_eq[i][j] = (fs_cmp[i][j] = "Equal")

\* The exclusive end of the chunk a sampled (start, end) pair selects.
EndOf(instructions, pt) == IF pt[2] = None THEN Len(instructions) ELSE pt[2]

\* The chunks [s, e) of a sequence that two_point_crossover can select.
SelectableChunks(instructions) ==
    {<<pt[1], EndOf(instructions, pt)>> : pt \in CrossPoints(instructions)}

\* C23: every non-empty contiguous chunk A[s:e] with 0 <= s < e <= |A| can be
\* selected as the swapped chunk of a call, also a chunk that starts before the
\* last instruction and reaches the end of A; likewise for B.
C23_EveryChunkSelectable ==
    cx_rounds > 0 =>
        \A k \in 1..2 :
            \A s \in 0..(Len(cx_before[k]) - 1) :
                \A e \in (s + 1)..Len(cx_before[k]) :
                    <<s, e>> \in SelectableChunks(cx_before[k])

\* How often x occurs in a sequence.
Occurrences(instructions, x) == Cardinality({i \in 1..Len(instructions) : instructions[i] = x})

Elements(instructions) == {instructions[i] : i \in 1..Len(instructions)}

\* C28: the two children together hold exactly the instructions of A and B,
\* each as often as the parents did, so the lengths add up to |A| + |B|; child A
\* is A[0:a_start] ++ B[b_start:b_end] ++ A[a_end:] and child B is
\* B[0:b_start] ++ A[a_start:a_end] ++ B[b_end:].
C28_CrossoverConserves ==
    cx_rounds > 0 =>
        LET A == cx_before[1]
            B == cx_before[2]
            a_start == cx_points[1][1]
            a_end == EndOf(A, cx_points[1])
            b_start == cx_points[2][1]
            b_end == EndOf(B, cx_points[2])
            child_A == cx_parents[1]
            child_B == cx_parents[2]
        IN  /\ Len(child_A) + Len(child_B) = Len(A) + Len(B)
            /\ \A x \in Elements(A) \cup Elements(B) \cup Elements(child_A) \cup Elements(child_B) :
                    Occurrences(child_A, x) + Occurrences(child_B, x)
                        = Occurrences(A, x) + Occurrences(B, x)
            /\ child_A = SubSeq(A, 1, a_start) \o SubSeq(B, b_start + 1, b_end)
                            \o SubSeq(A, a_end + 1, Len(A))
            /\ child_B = SubSeq(B, 1, b_start) \o SubSeq(A, a_start + 1, a_end)
                            \o SubSeq(B, b_end + 1, Len(B))

\* A = <<1, 2, 3>> gives up its middle instruction for the first two of
\* B = <<4, 5, 6>>: chunks of different lengths, both with an explicit end.
C28_Witness ==
    /\ cx_rounds = 1
    /\ cx_before = <<(<<1, 2, 3>>), (<<4, 5, 6>>)>>
    /\ cx_points = <<(<<1, 2>>), (<<0, 2>>)>>
    /\ cx_parents = <<(<<1, 4, 5, 3>>), (<<2, 6>>)>>

\* The sum of the rewards of a sequence of sim results.
RECURSIVE SumOfRewards(_)
SumOfRewards(log) ==
    IF log = <<>> THEN 0 ELSE SumOfRewards(SubSeq(log, 1, Len(log) - 1)) + log[Len(log)].reward

\* C24: in each trial sim is called at most max_episode_length times, no sim
\* call follows one that reported terminal, and the score of the trial, as it
\* runs and as it is pushed, is the sum of the rewards of the calls made, the
\* terminal one included.
C24_SimCallsOfATrial ==
    ep_pc \in {"trial", "step"} =>
        /\ Len(ep_sim_log) <= ep_max_episode_length
        /\ Len(ep_sim_log) = ep_step
        /\ \A k \in 1..(Len(ep_sim_log) - 1) : ~ep_sim_log[k].terminal
        /\ ep_score = SumOfRewards(ep_sim_log)
        /\ (ep_pc = "trial" /\ ep_trial > 0) =>
                /\ Len(ep_pairs) = ep_trial
                /\ ep_pairs[Len(ep_pairs)][1] = SumOfRewards(ep_sim_log)

\* A trial of two steps, each with reward -1, the second one terminal: the
\* pushed score is -2.
C24_Witness ==
    /\ ep_pc = "trial"
    /\ ep_max_episode_length = 2
    /\ ep_sim_log = <<[reward |-> -1, terminal |-> FALSE], [reward |-> -1, terminal |-> TRUE]>>
    /\ ep_pairs # <<>>
    /\ ep_pairs[Len(ep_pairs)][1] = -2

\* C25: every pair eval returns for a register vector of length n_registers has
\* action < n_actions and register < n_registers, whether the action was
\* explored or exploited, so the cells update reads and writes exist.
C25_PairWithinTable ==
    \A k \in 1..Len(qe_pairs) :
        /\ qe_pairs[k].action \in 0..(qe_table.n_actions - 1)
        /\ qe_pairs[k].register \in 0..(qe_table.n_registers - 1)
        /\ qe_pairs[k].register \in DOMAIN qe_table.table
        /\ qe_pairs[k].action \in DOMAIN qe_table.table[qe_pairs[k].register]

\* An explored pair whose action is not the greedy one, then an exploited
\* pair, and the update made with the two.
C25_Witness ==
    /\ qe_op = "update"
    /\ qe_branches = <<"explore", "exploit">>
    /\ qe_pairs[1].action \notin action_argmax(qe_before, qe_pairs[1].register)
    /\ qe_pairs[1].action = NActions - 1
    /\ qe_pairs[2].register = NRegisters - 1
    /\ qe_table # qe_before

\* C27: update changes at most the cell [current.register][current.action]:
\* every other cell, n_registers, n_actions, the shape of the table and the
\* constants stay; eval changes nothing in the table.
C27_UpdateWritesOneCell ==
    /\ qe_op = "eval" => qe_table = qe_before
    /\ qe_op = "update" =>
        /\ qe_table.n_actions = qe_before.n_actions
        /\ qe_table.n_registers = qe_before.n_registers
        /\ qe_table.q_consts = qe_before.q_consts
        /\ DOMAIN qe_table.table = DOMAIN qe_before.table
        /\ \A r \in DOMAIN qe_table.table :
            /\ DOMAIN qe_table.table[r] = DOMAIN qe_before.table[r]
            /\ \A a \in DOMAIN qe_table.table[r] :
                (r # qe_pairs[1].register \/ a # qe_pairs[1].action)
                    => qe_table.table[r][a] = qe_before.table[r][a]

\* An update that changed its cell in a table whose other cells are not 0.
C27_Witness ==
    /\ qe_op = "update"
    /\ qe_table # qe_before
    /\ \A r \in DOMAIN qe_before.table : \A a \in DOMAIN qe_before.table[r] :
        qe_before.table[r][a] = Rat(3)
    /\ qe_pairs[1].register # qe_pairs[2].register

\* C26: the population variation returns is the population it was given, every
\* organism as it was and in the same order, followed by the offspring, which
\* are new organisms without a fitness; the parents of a crossover or a
\* mutation are among the organisms that stay as they were.
C26_VariationAppendsToSurvivors ==
    vr_pc = "done" =>
        /\ Len(vr_population) >= Len(vr_survivors)
        /\ SubSeq(vr_population, 1, Len(vr_survivors)) = vr_survivors
        /\ \A k \in (Len(vr_survivors) + 1)..Len(vr_population) :
            vr_population[k].fitness = NotEvaluated

\* Two survivors of different fitness and a child of a crossover that has the
\* instructions of neither.
C26_Witness ==
    /\ vr_pc = "done"
    /\ Len(vr_survivors) = 2
    /\ fit_lt(vr_survivors[1].fitness, vr_survivors[2].fitness)
    /\ vr_params.crossover_percent = <<1, 1>>
    /\ Len(vr_population) = 3
    /\ \A k \in 1..2 : vr_population[3].instructions # vr_survivors[k].instructions

\* C21: the hyperparameters a generation starts with are the hyperparameters
\* as the hooks of the generation before left them: a change a hook made in
\* generation g is there in generation g + 1.
C21_HookChangeCarriesOver ==
    (hk_pc = "pre_eval" /\ hk_hooked # <<>>) => hk_local = hk_hooked

\* How many of the first k - 1 entries of a log are the given event.
CountBefore(log, k, event) == Cardinality({j \in 1..(k - 1) : log[j] = event})

\* C22: in every generation of QLgp, init is called before the fitness of any
\* organism is evaluated, and finish is called after the population is ranked
\* and not before every organism of the generation has been evaluated.
C22_InitBeforeEvalFinishAfterRank ==
    /\ \A k \in 1..Len(ql_log) :
        /\ ql_log[k] = "evaluated" => CountBefore(ql_log, k, "init") > 0
        /\ ql_log[k] = "finish" =>
            /\ CountBefore(ql_log, k, "ranked") > 0
            /\ CountBefore(ql_log, k, "evaluated") = ql_len
    /\ ql_pc = "tail" =>
        /\ \E k \in 1..Len(ql_log) : ql_log[k] = "init"
        /\ \E k \in 1..Len(ql_log) : ql_log[k] = "finish"

\* C30: with classification fitness on a fixed input set, a gap that leaves
\* floor((1 - gap) * len) >= 1 organisms and a best organism with a Valid
\* fitness, the best fitness of a yielded population is not lower than the
\* best fitness of the population yielded before it, and the best organism of
\* that one is in it with the fitness it had.
C30_BestNeverDrops ==
    (/\ dt_last = "some"
     /\ dt_previous # <<>>
     /\ best(dt_previous).fitness.tag = "Valid"
     /\ Quota(dt_previous, dt_params.gap) >= 1) =>
        /\ fit_le(best(dt_previous).fitness, best(dt_snapshot).fitness)
        /\ \E i \in 1..Len(dt_snapshot) : dt_snapshot[i] = best(dt_previous)

\* Three organisms of which gap 1/2 left the best one; in the next population
\* an offspring beats it, and it is still there, now below the best.
C30_Witness ==
    /\ dt_last = "some"
    /\ Len(dt_previous) = 3
    /\ dt_params.gap = <<1, 2>>
    /\ best(dt_previous).fitness = Valid(1)
    /\ best(dt_snapshot).fitness = Valid(2)
    /\ \E i \in 1..(Len(dt_snapshot) - 1) : dt_snapshot[i] = best(dt_previous)

====
